---- MODULE Spec2Model ----
(***************************************************************************)
(* A state-machine model of the CAN tool backend (backend/bus.py, the      *)
(* /api/send and /api/health handlers of backend/app.py, and               *)
(* backend/decoder.py): the BusManager connection lifecycle, the two       *)
(* backend variants (_SocketCANBus, _IntrepidBus) with their capture-loop  *)
(* threads and bounded receive queues, the batch-send handler, the         *)
(* get_rx_batch consumer, health_snapshot, selftest, and decode_frame.     *)
(*                                                                         *)
(* Scheduling.  Coroutines (connect, disconnect, the send handler,         *)
(* get_rx_batch, selftest) run on one asyncio event loop: between two      *)
(* awaits that really suspend, a coroutine runs without any other          *)
(* coroutine running.                                                      *)
(* The variable loop names the coroutine that is in the middle of such a   *)
(* synchronous stretch ("free" when none is).  Capture-loop threads and    *)
(* the asyncio.to_thread workers that run Backend.open / Backend.close     *)
(* are OS threads: their steps interleave with everything.                 *)
(***************************************************************************)
EXTENDS Integers, Sequences, FiniteSets

\* ------------------------------------------------------------- bounds
\* Backends instantiated over one run (each connect that reaches a
\* constructor takes a fresh one).
MaxBackends == 2
\* Frames a backend's driver delivers over its life.
MaxFrames == 3
\* queue.Queue(maxsize=10000) of bus.py:68 and bus.py:161, scaled down so
\* that overflow happens within MaxFrames.
QueueMaxsize == 2
\* selftest: its deadline (timeout_ms=300) in poll intervals.
MaxDeadline == 2
\* Concurrent callers of connect / disconnect.
NumCallers == 2
\* Frames in one /api/send request.
MaxBatch == 2
\* get_rx_batch: timeout in poll intervals, and max_items.
MaxTimeout == 2
MaxItems == 2
\* The most driver reads of one backend that raise.
MaxFails == 2
\* Requests whose handlers call get_bus.
MaxRequests == 3

BackendIds == 1..MaxBackends
RequestIds == 1..MaxRequests
CallIds == 1..NumCallers
Channels == {"can0", "intrepid0"}
\* What one item of SendRequest.frames (a Dict[str, str]) can be: well-formed,
\* an id_hex / data_hex that is not hex, or a dict without the id_hex key.
FrameKinds == {"good", "bad_id", "bad_data", "no_id"}

VARIABLES
    HAS_PYCAN,      \* bus.py:21-25, import probe of python-can
    HAS_INTREPID,   \* bus.py:28-32, import probe of icsneopy
    _impl_name,     \* BusManager._impl_name: the constructor's default implementation
    _lock,          \* BusManager._lock: Unset (no attribute), None (free), or Ref(holder)
    _bus,           \* BusManager._bus: Unset, None, or Ref(backend id)
    _info,          \* BusManager._info: InfoUnset, InfoEmpty, or Info(driver, channel)
    backends,       \* the backend objects instantiated so far (kind "none": not yet)
    calls,          \* the connect / disconnect coroutines, one per caller
    loop,           \* who runs synchronously on the event loop: "free", "call", "tx", "rx", "st"
    tx,             \* the /api/send handler
    rx,             \* the get_rx_batch call
    handed,         \* history: frames the current /api/send request handed to a driver
    delivered,      \* history: per backend, the last frame read_batch popped (0: none)
    snap,           \* the /api/health request: what health_snapshot and its wrapper gave
    st,             \* the selftest call
    marks,          \* per backend, the captured frames that are self-test sentinels
    loopq,          \* per backend, own frames the driver has still to loop back
    dec,            \* decode_frame: the frame given and the result
    bu,             \* the /api/can/bringup request and the commands it has issued
    failed,         \* history: per backend, the driver reads that raised
    partial,        \* per backend, the captured frames with only the sentinel's id or payload
    gb              \* app.py's get_bus: the global _bus, _bus_init_lock and the calls

mgrVars == <<_lock, _bus, _info>>
envVars == <<HAS_PYCAN, HAS_INTREPID, _impl_name>>
histVars == <<handed, delivered>>
auxVars == <<bu, failed, partial, gb>>
echoVars == <<marks, loopq>>
obsVars == <<snap, st, marks, loopq, dec>>
vars == <<HAS_PYCAN, HAS_INTREPID, _impl_name, _lock, _bus, _info, backends, calls, loop,
          tx, rx, handed, delivered, snap, st, marks, loopq, dec, bu, failed, partial,
          gb>>

\* ------------------------------------------------------------ helpers
Min(a, b) == IF a < b THEN a ELSE b

\* The value of a manager attribute: not bound at all, Python's None (for
\* _lock: the lock is free), or a reference (to a backend; for _lock: to
\* the call that holds it).
Unset == [st |-> "unset", id |-> 0]
None == [st |-> "None", id |-> 0]
Ref(i) == [st |-> "ref", id |-> i]

\* BusManager._info: not bound, the empty dict, or the ConnectionInfo that
\* connect stores (its connected_at time stamp and device name left out).
InfoUnset == [st |-> "unset", driver |-> "", channel |-> ""]
InfoEmpty == [st |-> "empty", driver |-> "", channel |-> ""]
Info(k, ch) == [st |-> "set", driver |-> k, channel |-> ch]

\* A backend object as its constructor leaves it (bus.py:64-72, 156-164);
\* kind "none" marks an id no constructor has used yet.
\*   handle : self.bus / self.dev is not None
\*   hw     : the driver resource: "never" opened, "open", or "closed"
\*   stop   : self._stop.is_set()
\*   th     : the capture thread: "none" (self._rx_thread is None), "top",
\*            "recv", "put", "evict", "put2", "exited"
\*   pend   : frames the thread has received and not yet enqueued
\*   rxq    : self._rxq
\*   seq    : frames received from the driver so far (capture order)
NewBackend(k) ==
    [kind |-> k, handle |-> FALSE, hw |-> "never", stop |-> FALSE,
     th |-> "none", pend |-> <<>>, rxq |-> <<>>, seq |-> 0, frames_total |-> 0]

NoBackend == NewBackend("none")

Instantiated == {b \in BackendIds : backends[b].kind # "none"}
FreshId == Cardinality(Instantiated) + 1
\* connect calls under way that have not reached a constructor yet.
ToInstantiate == {c \in CallIds : calls[c].op = "connect" /\ calls[c].b = 0
                                   /\ calls[c].pc # "idle"}

IdleCall == [op |-> "none", pc |-> "idle", chan |-> "none", b |-> 0,
             prior |-> 0, res |-> "none"]
IdleTx == [pc |-> "idle", req |-> <<>>, out |-> <<>>, ret |-> "none"]
IdleRx == [pc |-> "idle", timeout |-> 0, max_items |-> 0, elapsed |-> 0,
           b |-> 0, out |-> <<>>, items |-> <<>>, ret |-> "none"]

\* A health snapshot (a dict), by the keys it holds:
\*   status  : the value of "status" ("" when the key is absent)
\*   info    : the keys of the manager's ConnectionInfo are present
\*   backend : the keys of the backend's health() are present
\*   ready   : the "ready" key: "absent" or "False"
\*   error   : the "error" key is present
Snapshot(s, i, b) ==
    [status |-> s, info |-> i, backend |-> b, ready |-> "absent", error |-> FALSE]
NoSnapshot == Snapshot("", FALSE, FALSE)
\* No /api/health request has been served yet.
\*   raises : the backend's health() raised during the request
\*   inner  : what BusManager.health_snapshot did: "none", "returned", or
\*            the exception it raised
\*   body   : the dict the request answered with
IdleSnap == [ret |-> "none", raises |-> FALSE, inner |-> "none", body |-> NoSnapshot]
\* No selftest call is under way.
\*   pc        : "idle", "send" (drained, about to send), "poll", "sleep"
\*   elapsed   : poll intervals since `deadline` was computed
\*   connected, tx_ok, echo_rx, rx_seen, error : the keys of the result
\*               (connected "" until a result exists; error: the key is present)
\*   ret       : "none", "returned", or the exception the call raised
\*   b, seq0   : history: the backend the sentinel was sent on, and the
\*               frames that backend had captured by then
\*   stale     : history: the frames in the queue when the call started
IdleSt == [pc |-> "idle", elapsed |-> 0, connected |-> "", tx_ok |-> FALSE,
           echo_rx |-> FALSE, rx_seen |-> 0, error |-> FALSE, ret |-> "none",
           b |-> 0, seq0 |-> 0, stale |-> {}]
\* A value that may be Python's None.
Null == [null |-> TRUE, v |-> 0]
Some(x) == [null |-> FALSE, v |-> x]
\* What decode_frame gives: ret is "none" (not called yet), "returned" or
\* the exception raised; pgn, sa and decoded are the keys of its dict.
NoOut == [ret |-> "none", pgn |-> Null, sa |-> Null, decoded |-> <<>>]
\* decode_frame has been given no frame.
\*   pc     : "none", "given" (a frame to decode), "done"
\*   id_hex : fr.id_hex, a sequence of characters
\*   data   : fr.data, a sequence of bytes
NoDec == [pc |-> "none", id_hex |-> <<>>, data |-> <<>>, out |-> NoOut]

\* The result of the last _run_priv call: the command, how its direct run
\* ended (d), how its run through pkexec ended (h, "none": no such run),
\* and the exception _run_priv raised.
NoRun == [cmd |-> "none", check |-> FALSE, d |-> "none", h |-> "none", exc |-> "none"]
\* No /api/can/bringup request has been made.
\*   pc      : "idle", "modprobe_can", "modprobe_can_raw", "ip_exists",
\*             "vcan_add", "vcan_up", "down", "type", "up", "done"
\*   vcan    : iface.startswith("vcan")
\*   req     : req.bitrate (0: None)
\*   bitrate : int(req.bitrate or 250000)
\*   helper  : shutil.which("pkexec") finds the helper
\*   log     : history: the privileged commands run, in order
\*   res     : "none", "ok", or the HTTP status / exception that ended it
IdleBu == [pc |-> "idle", vcan |-> FALSE, exists |-> FALSE, req |-> 0, bitrate |-> 0,
           helper |-> FALSE, log |-> <<>>, last |-> NoRun, res |-> "none"]

\* No frame captured has the sentinel's identifier with another payload
\* (id_only) or the sentinel's payload under another identifier (data_only).
NoPartial == [id_only |-> {}, data_only |-> {}]

\* No driver read of the backend has raised.
\*   n   : how many reads have raised
\*   seq : the frames the backend had captured when the last one raised
NoFailure == [n |-> 0, seq |-> 0]

\* A backend object nothing refers to any more (the manager has dropped it
\* and its capture thread has ended) is freed: its queue and counters are
\* gone with it.  The record keeps what the object's life ended with.
Freed(r) == [r EXCEPT !.pend = <<>>, !.rxq = <<>>, !.seq = 0, !.frames_total = 0]

\* queue.Queue.full() of a queue built with maxsize=QueueMaxsize.
Full(q) == Len(q) >= QueueMaxsize

\* app.py's module state and the get_bus calls of the requests:
\*   bus     : the global _bus: 0 (None) or the BusManager instance, numbered
\*             in the order of construction
\*   holder  : _bus_init_lock: the request that holds it, 0 when free
\*   waiters : the requests suspended in _bus_init_lock.acquire(), oldest first
\*   built   : history: how many times BusManager() has run
\*   pc      : per request, "idle", "wait" (suspended in acquire), "thread"
\*             (awaiting to_thread, BusManager() not yet run) or "built"
\*             (BusManager() has run in the worker, the coroutine not resumed)
\*   obj     : per request, the instance its worker thread constructed
\*   ret     : per request, "none" or "returned"
\*   got     : per request, the value its last get_bus call returned (0: None)
IdleGb ==
    [bus |-> 0, holder |-> 0, waiters |-> <<>>, built |-> 0,
     pc |-> [i \in RequestIds |-> "idle"],
     obj |-> [i \in RequestIds |-> 0],
     ret |-> [i \in RequestIds |-> "none"],
     got |-> [i \in RequestIds |-> 0]]

\* -------------------------------------------------------------- Init
\* Everything but the manager's three attributes and the decoder's frame.
InitCore ==
    /\ HAS_PYCAN \in BOOLEAN
    /\ HAS_INTREPID \in BOOLEAN
    /\ backends = [b \in BackendIds |-> NoBackend]
    /\ calls = [c \in CallIds |-> IdleCall]
    /\ loop = "free"
    /\ tx = IdleTx
    /\ rx = IdleRx
    /\ handed = 0
    /\ delivered = [b \in BackendIds |-> 0]
    /\ snap = IdleSnap
    /\ st = IdleSt
    /\ marks = [b \in BackendIds |-> {}]
    /\ loopq = [b \in BackendIds |-> 0]
    /\ bu = IdleBu
    /\ failed = [b \in BackendIds |-> NoFailure]
    /\ partial = [b \in BackendIds |-> NoPartial]
    /\ gb = IdleGb

\* The default implementation BusManager.__init__ selects. _SocketCANBus()
\* and _IntrepidBus() are called without their required argument, so each
\* raises TypeError into the `except Exception: pass` around it and leaves
\* _impl_name None; _KvaserBus() takes none and is selected on Windows when
\* python-can is found.
DefaultImpl(win) == IF win /\ HAS_PYCAN THEN "kvaser" ELSE "none"

\* No decode_frame call is under way; the host is not Windows.
InitRest ==
    /\ InitCore
    /\ dec = NoDec
    /\ _impl_name = DefaultImpl(FALSE)

\* The manager as BusManager.__init__ leaves it: the constructor binds
\* _impl and _impl_name only, so _lock, _bus and _info are not attributes
\* of the object.
Init ==
    /\ _lock = Unset
    /\ _bus = Unset
    /\ _info = InfoUnset
    /\ InitRest

\* The manager with the three attributes every method reads bound to
\* their empty values: an asyncio.Lock, no backend, no ConnectionInfo.
InitAttrs ==
    /\ _lock = None
    /\ _bus = None
    /\ _info = InfoEmpty
    /\ InitRest

\* The manager on any host, Windows included, with the three attributes
\* bound.
InitRoute ==
    /\ _lock = None
    /\ _bus = None
    /\ _info = InfoEmpty
    /\ InitCore
    /\ dec = NoDec
    /\ \E win \in BOOLEAN : _impl_name = DefaultImpl(win)

\* ------------------------------------------------- Backend.close (worker)
SetCall(c, r) == calls' = [calls EXCEPT ![c] = r]
\* Call c is the coroutine running on the event loop (it holds the lock).
Running(c) == loop = "call" /\ _lock = Ref(c)
SetBackend(b, r) == backends' = [backends EXCEPT ![b] = r]

\* close(), first statement: self._stop.set(); then `if self._rx_thread:`.
close_stop(c) ==
    LET b == calls[c].prior IN
    /\ calls[c].pc = "close_stop"
    /\ SetBackend(b, [backends[b] EXCEPT !.stop = TRUE])
    /\ SetCall(c, [calls[c] EXCEPT
            !.pc = IF backends[b].th = "none" THEN "close_shutdown" ELSE "close_join"])
    /\ UNCHANGED <<envVars, auxVars, obsVars, mgrVars, loop, tx, rx, histVars>>

\* self._rx_thread.join(timeout=1): returns when the thread has exited, or
\* after one second while the thread is still inside its driver read.
close_join(c) ==
    LET b == calls[c].prior IN
    /\ calls[c].pc = "close_join"
    /\ backends[b].th \in {"exited", "recv"}
    /\ SetCall(c, [calls[c] EXCEPT !.pc = "close_shutdown"])
    /\ UNCHANGED <<envVars, auxVars, obsVars, mgrVars, backends, loop, tx, rx, histVars>>

\* A close() that leaves out the shutdown: the handle stays bound and the
\* hardware stays open.
close_shutdown_keep(c) ==
    /\ calls[c].pc = "close_shutdown"
    /\ SetCall(c, [calls[c] EXCEPT !.pc = "close_done"])
    /\ UNCHANGED <<envVars, auxVars, obsVars, mgrVars, backends, loop, tx, rx, histVars>>

\* A close() that shuts the bus down and leaves self.bus bound.
close_shutdown_twice(c) ==
    LET b == calls[c].prior IN
    /\ calls[c].pc = "close_shutdown"
    /\ SetBackend(b, IF backends[b].handle
                     THEN [backends[b] EXCEPT !.hw = "closed"]
                     ELSE backends[b])
    /\ SetCall(c, [calls[c] EXCEPT !.pc = "close_done"])
    /\ UNCHANGED <<envVars, auxVars, obsVars, mgrVars, loop, tx, rx, histVars>>

\* `if self.bus: try: self.bus.shutdown() ...; self.bus = None` (for
\* _IntrepidBus: enable_bus(False), dev.close(), self.dev = None).
close_shutdown(c) ==
    LET b == calls[c].prior IN
    /\ calls[c].pc = "close_shutdown"
    /\ SetBackend(b, IF backends[b].handle
                     THEN [backends[b] EXCEPT !.handle = FALSE, !.hw = "closed"]
                     ELSE backends[b])
    /\ SetCall(c, [calls[c] EXCEPT !.pc = "close_done"])
    /\ UNCHANGED <<envVars, auxVars, obsVars, mgrVars, loop, tx, rx, histVars>>

\* -------------------------------------------------- Backend.open (worker)
\* What the driver does with an open() of a backend of kind k:
\*   "ok"       the bus / device opens, the capture thread is started
\*   "raise"    can.interface.Bus raises, or no Intrepid device at the index
\*   "refused"  _IntrepidBus only: self.dev is bound, dev.open() returns False
OpenOutcomes(k) == IF k = "intrepid" THEN {"ok", "raise", "refused"} ELSE {"ok", "raise"}

open_run(c) ==
    LET b == calls[c].b IN
    /\ calls[c].pc = "open_run"
    /\ \E o \in OpenOutcomes(backends[b].kind) :
         /\ SetBackend(b, CASE o = "ok" ->
                                 [backends[b] EXCEPT !.handle = TRUE, !.hw = "open", !.th = "top"]
                            [] o = "refused" -> [backends[b] EXCEPT !.handle = TRUE]
                            [] OTHER -> backends[b])
         /\ SetCall(c, [calls[c] EXCEPT !.pc = IF o = "ok" THEN "open_ok" ELSE "open_fail"])
    /\ UNCHANGED <<envVars, auxVars, obsVars, mgrVars, loop, tx, rx, histVars>>

\* ------------------------------------- a backend object used on its own
\* b = _SocketCANBus(...) / _IntrepidBus(...): the constructor alone.
\* _IntrepidBus.__init__ reads ics.Network and needs icsneopy.
backend_new(k) ==
    /\ Instantiated = {}
    /\ k = "intrepid" => HAS_INTREPID
    /\ SetBackend(FreshId, NewBackend(k))
    /\ UNCHANGED <<envVars, auxVars, obsVars, mgrVars, calls, loop, tx, rx, histVars>>

\* b.open() is called on an object that no open() has bound a handle of.
open_call(c, b) ==
    /\ calls[c].pc = "idle"
    /\ b \in Instantiated
    /\ ~backends[b].handle
    /\ backends[b].hw = "never"
    /\ SetCall(c, [IdleCall EXCEPT !.op = "open", !.pc = "open_run", !.b = b])
    /\ UNCHANGED <<envVars, auxVars, obsVars, mgrVars, backends, loop, tx, rx, histVars>>

\* b.open() returns, or raises to its caller.
open_return(c) ==
    /\ calls[c].op = "open"
    /\ calls[c].pc \in {"open_ok", "open_fail"}
    /\ SetCall(c, [calls[c] EXCEPT !.pc = "idle",
                       !.res = IF calls[c].pc = "open_ok" THEN "done" ELSE "RuntimeError"])
    /\ UNCHANGED <<envVars, auxVars, obsVars, mgrVars, backends, loop, tx, rx, histVars>>

\* b.close() is called.
close_call(c, b) ==
    /\ calls[c].pc = "idle"
    /\ b \in Instantiated
    /\ SetCall(c, [IdleCall EXCEPT !.op = "close", !.pc = "close_stop", !.prior = b])
    /\ UNCHANGED <<envVars, auxVars, obsVars, mgrVars, backends, loop, tx, rx, histVars>>

\* b.close() returns.
close_return(c) ==
    /\ calls[c].op = "close"
    /\ calls[c].pc = "close_done"
    /\ SetCall(c, [calls[c] EXCEPT !.pc = "idle", !.res = "done"])
    /\ UNCHANGED <<envVars, auxVars, obsVars, mgrVars, backends, loop, tx, rx, histVars>>

\* ------------------------------------------- BusManager.connect / disconnect
\* A caller issues connect(channel) or disconnect(); the coroutine is
\* created and waits for the event loop.
connect_call(c, ch) ==
    /\ calls[c].pc = "idle"
    /\ Cardinality(Instantiated) + Cardinality(ToInstantiate) < MaxBackends
    /\ SetCall(c, [IdleCall EXCEPT !.op = "connect", !.pc = "lock", !.chan = ch])
    /\ UNCHANGED <<envVars, auxVars, obsVars, mgrVars, backends, loop, tx, rx, histVars>>

disconnect_call(c) ==
    /\ calls[c].pc = "idle"
    /\ SetCall(c, [IdleCall EXCEPT !.op = "disconnect", !.pc = "lock"])
    /\ UNCHANGED <<envVars, auxVars, obsVars, mgrVars, backends, loop, tx, rx, histVars>>

\* An `async with self._lock:` that does not wait for the lock to be free.
lock_acquire_any(c) ==
    /\ calls[c].pc = "lock"
    /\ loop = "free"
    /\ _lock # Unset
    /\ _lock' = Ref(c)
    /\ loop' = "call"
    /\ SetCall(c, [calls[c] EXCEPT !.pc = "teardown"])
    /\ UNCHANGED <<envVars, auxVars, obsVars, _bus, _info, backends, tx, rx, histVars>>

\* `async with self._lock:` -- an AttributeError when the manager has no
\* _lock; otherwise the coroutine waits until the lock is free and takes it.
lock_acquire(c) ==
    /\ calls[c].pc = "lock"
    /\ loop = "free"
    /\ IF _lock = Unset
       THEN /\ SetCall(c, [calls[c] EXCEPT !.pc = "idle", !.res = "AttributeError"])
            /\ UNCHANGED <<_lock, loop>>
       ELSE /\ _lock = None
            /\ _lock' = Ref(c)
            /\ loop' = "call"
            /\ SetCall(c, [calls[c] EXCEPT !.pc = "teardown"])
    /\ UNCHANGED <<envVars, auxVars, obsVars, _bus, _info, backends, tx, rx, histVars>>

\* A teardown that closes nothing: it goes on to the caller's body with the
\* stored backend as it is.
_disconnect_no_lock_skip(c) ==
    /\ calls[c].pc = "teardown"
    /\ Running(c)
    /\ _bus # Unset
    /\ SetCall(c, [calls[c] EXCEPT !.pc = "body"])
    /\ UNCHANGED <<envVars, auxVars, obsVars, mgrVars, backends, loop, tx, rx, histVars>>

\* _disconnect_no_lock up to its await: `if self._bus is not None:` starts
\* close() of the stored backend on a worker thread and suspends.
_disconnect_no_lock(c) ==
    /\ calls[c].pc = "teardown"
    /\ Running(c)
    /\ IF _bus = Unset
       THEN \* AttributeError leaves the `async with`, which releases the lock
            /\ SetCall(c, [calls[c] EXCEPT !.pc = "idle", !.res = "AttributeError"])
            /\ _lock' = None
            /\ loop' = "free"
       ELSE IF _bus = None
       THEN /\ SetCall(c, [calls[c] EXCEPT !.pc = "body"])
            /\ UNCHANGED <<_lock, loop>>
       ELSE /\ SetCall(c, [calls[c] EXCEPT !.pc = "close_stop", !.prior = _bus.id])
            /\ loop' = "free"
            /\ UNCHANGED _lock
    /\ UNCHANGED <<envVars, auxVars, obsVars, _bus, _info, backends, tx, rx, histVars>>

\* A teardown that drops the backend and keeps its connection info.
_disconnect_resume_stale(c) ==
    LET b == calls[c].prior
        last == backends[b].th \in {"none", "exited"} IN
    /\ calls[c].pc = "close_done"
    /\ loop = "free"
    /\ _bus' = None
    /\ loop' = "call"
    /\ SetCall(c, [calls[c] EXCEPT !.pc = "body"])
    /\ SetBackend(b, IF last THEN Freed(backends[b]) ELSE backends[b])
    /\ delivered' = IF last THEN [delivered EXCEPT ![b] = 0] ELSE delivered
    /\ UNCHANGED <<envVars, auxVars, obsVars, _lock, _info, tx, rx, handed>>

\* _disconnect_no_lock after its await: self._bus = None; self._info = {}.
_disconnect_resume(c) ==
    LET b == calls[c].prior
        last == backends[b].th \in {"none", "exited"} IN
    /\ calls[c].pc = "close_done"
    /\ loop = "free"
    /\ _bus' = None
    /\ _info' = InfoEmpty
    /\ loop' = "call"
    /\ SetCall(c, [calls[c] EXCEPT !.pc = "body"])
    /\ SetBackend(b, IF last THEN Freed(backends[b]) ELSE backends[b])
    /\ delivered' = IF last THEN [delivered EXCEPT ![b] = 0] ELSE delivered
    /\ UNCHANGED <<envVars, auxVars, obsVars, _lock, tx, rx, handed>>

\* disconnect after the teardown: the `async with` ends.
disconnect_return(c) ==
    /\ calls[c].pc = "body"
    /\ calls[c].op = "disconnect"
    /\ Running(c)
    /\ _lock' = None
    /\ loop' = "free"
    /\ SetCall(c, [calls[c] EXCEPT !.pc = "idle", !.res = "done", !.b = 0, !.chan = "none"])
    /\ UNCHANGED <<envVars, auxVars, obsVars, _bus, _info, backends, tx, rx, histVars>>

\* The variant connect instantiates for a channel name.
VariantOf(ch) == IF ch = "intrepid0" THEN "intrepid" ELSE "socketcan"

\* Whether connect gets as far as a backend object: _IntrepidBus.__init__
\* reads ics.Network (a NameError without icsneopy, caught by connect's
\* except); the socketcan branch returns early without python-can.
CanInstantiate(k) == IF k = "intrepid" THEN HAS_INTREPID ELSE HAS_PYCAN

\* A try block whose library-unavailable return leaves the lock held.
connect_try_held(c) ==
    LET k == VariantOf(calls[c].chan) IN
    /\ calls[c].pc = "body"
    /\ calls[c].op = "connect"
    /\ Running(c)
    /\ loop' = "free"
    /\ IF CanInstantiate(k)
       THEN /\ SetBackend(FreshId, NewBackend(k))
            /\ SetCall(c, [calls[c] EXCEPT !.pc = "open_run", !.b = FreshId])
            /\ UNCHANGED mgrVars
       ELSE /\ SetCall(c, [calls[c] EXCEPT !.pc = "idle", !.res = "fail", !.b = 0, !.chan = "none"])
            /\ _bus' = IF k = "intrepid" THEN None ELSE _bus
            /\ _info' = IF k = "intrepid" THEN InfoEmpty ELSE _info
            /\ UNCHANGED <<_lock, backends>>
    /\ UNCHANGED <<envVars, auxVars, obsVars, tx, rx, histVars>>

\* connect's try block up to `await asyncio.to_thread(b.open)`.
connect_try(c) ==
    LET k == VariantOf(calls[c].chan) IN
    /\ calls[c].pc = "body"
    /\ calls[c].op = "connect"
    /\ Running(c)
    /\ loop' = "free"
    /\ IF CanInstantiate(k)
       THEN /\ SetBackend(FreshId, NewBackend(k))
            /\ SetCall(c, [calls[c] EXCEPT !.pc = "open_run", !.b = FreshId])
            /\ UNCHANGED mgrVars
       ELSE \* return False, ... ; the except branch also clears _bus and _info
            /\ SetCall(c, [calls[c] EXCEPT !.pc = "idle", !.res = "fail", !.b = 0, !.chan = "none"])
            /\ _lock' = None
            /\ _bus' = IF k = "intrepid" THEN None ELSE _bus
            /\ _info' = IF k = "intrepid" THEN InfoEmpty ELSE _info
            /\ UNCHANGED backends
    /\ UNCHANGED <<envVars, auxVars, obsVars, tx, rx, histVars>>

\* open() returned: self._bus = b; self._info = {...}; return True, ...
connect_opened(c) ==
    /\ calls[c].pc = "open_ok"
    /\ loop = "free"
    /\ _bus' = Ref(calls[c].b)
    /\ _info' = Info(backends[calls[c].b].kind, calls[c].chan)
    /\ _lock' = None
    /\ SetCall(c, [calls[c] EXCEPT !.pc = "idle", !.res = "ok", !.b = 0, !.chan = "none"])
    /\ UNCHANGED <<envVars, auxVars, obsVars, backends, loop, tx, rx, histVars>>

\* An except branch that stores the backend whose open() failed.
connect_failed_keep(c) ==
    /\ calls[c].pc = "open_fail"
    /\ loop = "free"
    /\ _bus' = Ref(calls[c].b)
    /\ _info' = Info(backends[calls[c].b].kind, calls[c].chan)
    /\ _lock' = None
    /\ SetCall(c, [calls[c] EXCEPT !.pc = "idle", !.res = "fail", !.b = 0, !.chan = "none"])
    /\ UNCHANGED <<envVars, auxVars, obsVars, backends, loop, tx, rx, histVars>>

\* open() raised: `except Exception as e:` self._bus = None; self._info = {};
\* return False, str(e).
connect_failed(c) ==
    /\ calls[c].pc = "open_fail"
    /\ loop = "free"
    /\ _bus' = None
    /\ _info' = InfoEmpty
    /\ _lock' = None
    /\ SetCall(c, [calls[c] EXCEPT !.pc = "idle", !.res = "fail", !.b = 0, !.chan = "none"])
    /\ UNCHANGED <<envVars, auxVars, obsVars, backends, loop, tx, rx, histVars>>

\* ------------------------------------------------------ the capture loop
\* A loop test that does not read the stop flag.
loop_top_deaf(b) ==
    /\ backends[b].th = "top"
    /\ SetBackend(b, [backends[b] EXCEPT !.th = "recv"])
    /\ UNCHANGED <<envVars, auxVars, obsVars, mgrVars, calls, loop, tx, rx, histVars>>

\* `while not self._stop.is_set():` -- the thread ends, or calls the driver.
loop_top(b) ==
    LET last == backends[b].stop /\ _bus # Ref(b) IN
    /\ backends[b].th = "top"
    /\ SetBackend(b, IF backends[b].stop
                     THEN [(IF last THEN Freed(backends[b]) ELSE backends[b]) EXCEPT !.th = "exited"]
                     ELSE [backends[b] EXCEPT !.th = "recv"])
    /\ delivered' = IF last THEN [delivered EXCEPT ![b] = 0] ELSE delivered
    /\ UNCHANGED <<envVars, auxVars, obsVars, mgrVars, calls, loop, tx, rx, handed>>

\* How many frames one driver read can return: self.bus.recv(0.02) returns
\* one message or None; self.dev.receive() returns a list.
MaxPerRead(k) == IF k = "intrepid" THEN 2 ELSE 1

\* The driver read returns n >= 1 frames; they are numbered in capture order.
recv_frames(b) ==
    /\ backends[b].th = "recv"
    /\ backends[b].hw = "open"
    /\ \E n \in 1..MaxPerRead(backends[b].kind) :
         /\ backends[b].seq + n <= MaxFrames
         /\ SetBackend(b, [backends[b] EXCEPT
                !.th = "put",
                !.seq = @ + n,
                !.pend = [i \in 1..n |-> backends[b].seq + i]])
    /\ UNCHANGED <<envVars, auxVars, obsVars, mgrVars, calls, loop, tx, rx, histVars>>

\* The driver read returns nothing (recv timed out with None, receive()
\* returned an empty list) or raises (`except Exception: time.sleep(0.001)`),
\* which is all it can do once close() has shut the bus down under it.
recv_nothing(b) ==
    /\ backends[b].th = "recv"
    /\ SetBackend(b, [backends[b] EXCEPT !.th = "top"])
    /\ UNCHANGED <<envVars, auxVars, obsVars, mgrVars, calls, loop, tx, rx, histVars>>

\* A driver read that raises and ends the thread.
recv_raises_exit(b) ==
    /\ backends[b].th = "recv"
    /\ failed[b].n < MaxFails
    /\ failed' = [failed EXCEPT ![b] = [n |-> @.n + 1, seq |-> backends[b].seq]]
    /\ SetBackend(b, [backends[b] EXCEPT !.th = "exited"])
    /\ UNCHANGED <<envVars, bu, partial, gb, obsVars, mgrVars, calls, loop, tx, rx, histVars>>

\* The driver read raises: `except Exception: time.sleep(0.001)`, and the
\* loop goes on to its next test of the stop flag.
recv_raises(b) ==
    /\ backends[b].th = "recv"
    /\ failed[b].n < MaxFails
    /\ failed' = [failed EXCEPT ![b] = [n |-> @.n + 1, seq |-> backends[b].seq]]
    /\ SetBackend(b, [backends[b] EXCEPT !.th = "top"])
    /\ UNCHANGED <<envVars, bu, partial, gb, obsVars, mgrVars, calls, loop, tx, rx, histVars>>

\* A put on a queue without a capacity: it never raises queue.Full.
socketcan_put_unbounded(b) ==
    /\ backends[b].th = "put"
    /\ backends[b].kind = "socketcan"
    /\ SetBackend(b, [backends[b] EXCEPT !.th = "top", !.pend = <<>>,
                          !.rxq = Append(@, Head(backends[b].pend)),
                          !.frames_total = @ + 1])
    /\ UNCHANGED <<envVars, auxVars, obsVars, mgrVars, calls, loop, tx, rx, histVars>>

\* _SocketCANBus: self._rxq.put_nowait(frm); queue.Full leads to the
\* drop-oldest branch.
socketcan_put(b) ==
    LET q == backends[b].rxq IN
    /\ backends[b].th = "put"
    /\ backends[b].kind = "socketcan"
    /\ SetBackend(b, IF Full(q)
                     THEN [backends[b] EXCEPT !.th = "evict"]
                     ELSE [backends[b] EXCEPT !.th = "top", !.pend = <<>>,
                               !.rxq = Append(q, Head(backends[b].pend)),
                               !.frames_total = @ + 1])
    /\ UNCHANGED <<envVars, auxVars, obsVars, mgrVars, calls, loop, tx, rx, histVars>>

\* `_ = self._rxq.get_nowait()` (queue.Empty is passed over).
socketcan_evict(b) ==
    LET q == backends[b].rxq IN
    /\ backends[b].th = "evict"
    /\ SetBackend(b, [backends[b] EXCEPT !.th = "put2",
                          !.rxq = IF q = <<>> THEN q ELSE Tail(q)])
    /\ UNCHANGED <<envVars, auxVars, obsVars, mgrVars, calls, loop, tx, rx, histVars>>

\* The second self._rxq.put_nowait(frm) (queue.Full is passed over), then
\* self.frames_total += 1.
socketcan_put2(b) ==
    LET q == backends[b].rxq
        f == Head(backends[b].pend) IN
    /\ backends[b].th = "put2"
    /\ SetBackend(b, [backends[b] EXCEPT !.th = "top", !.pend = <<>>,
                          !.rxq = IF Full(q) THEN q ELSE Append(q, f),
                          !.frames_total = @ + 1])
    /\ UNCHANGED <<envVars, auxVars, obsVars, mgrVars, calls, loop, tx, rx, histVars>>

\* _IntrepidBus: `for m in msgs: self._rxq.put_nowait(...); self.frames_total
\* += 1` inside the try: queue.Full leaves the for loop for the except
\* branch, and the frame and the rest of the list are gone.
intrepid_put(b) ==
    LET q == backends[b].rxq
        p == backends[b].pend IN
    /\ backends[b].th = "put"
    /\ backends[b].kind = "intrepid"
    /\ SetBackend(b, IF Full(q)
                     THEN [backends[b] EXCEPT !.th = "top", !.pend = <<>>]
                     ELSE [backends[b] EXCEPT
                               !.th = IF Len(p) = 1 THEN "top" ELSE "put",
                               !.pend = Tail(p),
                               !.rxq = Append(q, Head(p)),
                               !.frames_total = @ + 1])
    /\ UNCHANGED <<envVars, auxVars, obsVars, mgrVars, calls, loop, tx, rx, histVars>>

\* ---------------------------------------------------- /api/send (app.py)
Requests == UNION {[1..n -> FrameKinds] : n \in 1..MaxBatch}

send_call(req) ==
    /\ tx.pc = "idle"
    /\ loop = "free"
    /\ loop' = "tx"
    /\ tx' = [pc |-> "run", req |-> req, out |-> <<>>, ret |-> "none"]
    /\ handed' = 0
    /\ UNCHANGED <<envVars, auxVars, obsVars, mgrVars, backends, calls, rx, delivered>>

\* Backend.send for a frame of kind k on backend b, the driver accepting it
\* or not: the error it raises, "" for none.
BackendSend(b, k, accept) ==
    IF ~backends[b].handle THEN "RuntimeError: not open"
    ELSE IF k \in {"bad_id", "bad_data"} THEN "ValueError"
    ELSE IF ~accept THEN "driver rejected"
    ELSE ""

\* BusManager.send: the error it raises, "" for none.
BusManagerSend(k, accept) ==
    IF _bus = Unset THEN "AttributeError"
    ELSE IF _bus = None THEN "RuntimeError: Not connected"
    ELSE BackendSend(_bus.id, k, accept)

\* One turn of `for it in req.frames:`.  it["id_hex"] is read in the try
\* and again in the except branch: for an item without that key the second
\* KeyError leaves the handler.
send_frame ==
    LET i == Len(tx.out) + 1
        k == tx.req[i] IN
    /\ tx.pc = "run"
    /\ i <= Len(tx.req)
    /\ IF k = "no_id"
       THEN /\ tx' = [tx EXCEPT !.pc = "idle", !.ret = "KeyError"]
            /\ loop' = "free"
            /\ UNCHANGED handed
       ELSE /\ \E accept \in BOOLEAN :
                 LET err == BusManagerSend(k, accept) IN
                 /\ tx' = [tx EXCEPT !.out = Append(@, [ok |-> err = "", error |-> err])]
                 /\ handed' = IF err \in {"", "driver rejected"} THEN handed + 1 ELSE handed
            /\ UNCHANGED loop
    /\ UNCHANGED <<envVars, auxVars, obsVars, mgrVars, backends, calls, rx, delivered>>

\* return {"results": out}
send_return ==
    /\ tx.pc = "run"
    /\ Len(tx.out) = Len(tx.req)
    /\ tx' = [tx EXCEPT !.pc = "idle", !.ret = "returned"]
    /\ loop' = "free"
    /\ UNCHANGED <<envVars, auxVars, obsVars, mgrVars, backends, calls, rx, histVars>>

\* ------------------------------------------------ BusManager.get_rx_batch
\* get_rx_batch(timeout, max_items) is called: end = time.time() + timeout;
\* items = [].  Time is counted in poll intervals (asyncio.sleep(0.01)).
get_rx_batch_call(t, m) ==
    /\ rx.pc = "idle"
    /\ loop = "free"
    /\ loop' = "rx"
    /\ rx' = [IdleRx EXCEPT !.pc = "poll", !.timeout = t, !.max_items = m]
    /\ UNCHANGED <<envVars, auxVars, obsVars, mgrVars, backends, calls, tx, histVars>>

\* A get_rx_batch that looks self._bus up at its first poll only and keeps
\* reading that backend.
get_rx_batch_poll_cached ==
    /\ rx.pc = "poll"
    /\ loop = "rx"
    /\ IF rx.elapsed >= rx.timeout
       THEN /\ rx' = [rx EXCEPT !.pc = "idle", !.ret = "returned"]
            /\ loop' = "free"
       ELSE IF _bus = Unset
       THEN /\ rx' = [rx EXCEPT !.pc = "idle", !.ret = "AttributeError"]
            /\ loop' = "free"
       ELSE IF _bus = None /\ rx.b = 0
       THEN /\ rx' = [rx EXCEPT !.pc = "idle", !.ret = "returned"]
            /\ loop' = "free"
       ELSE /\ rx' = [rx EXCEPT !.pc = "read", !.b = IF rx.b # 0 THEN rx.b ELSE _bus.id,
                                !.out = <<>>]
            /\ UNCHANGED loop
    /\ UNCHANGED <<envVars, auxVars, obsVars, mgrVars, backends, calls, tx, histVars>>

\* `while time.time() < end:` / `if self._bus is None: break` / the call of
\* read_batch(max_items).
get_rx_batch_poll ==
    /\ rx.pc = "poll"
    /\ loop = "rx"
    /\ IF rx.elapsed >= rx.timeout
       THEN /\ rx' = [rx EXCEPT !.pc = "idle", !.ret = "returned"]
            /\ loop' = "free"
       ELSE IF _bus = Unset
       THEN /\ rx' = [rx EXCEPT !.pc = "idle", !.ret = "AttributeError"]
            /\ loop' = "free"
       ELSE IF _bus = None
       THEN /\ rx' = [rx EXCEPT !.pc = "idle", !.ret = "returned"]
            /\ loop' = "free"
       ELSE /\ rx' = [rx EXCEPT !.pc = "read", !.b = _bus.id, !.out = <<>>]
            /\ UNCHANGED loop
    /\ UNCHANGED <<envVars, auxVars, obsVars, mgrVars, backends, calls, tx, histVars>>

\* A read_batch on a last-in-first-out queue: it pops the newest frame.
read_batch_get_lifo ==
    LET b == rx.b
        q == backends[b].rxq IN
    /\ rx.pc = "read"
    /\ Len(rx.out) < rx.max_items
    /\ q # <<>>
    /\ SetBackend(b, [backends[b] EXCEPT !.rxq = SubSeq(q, 1, Len(q) - 1)])
    /\ rx' = [rx EXCEPT !.out = Append(@, q[Len(q)])]
    /\ delivered' = [delivered EXCEPT ![b] = q[Len(q)]]
    /\ UNCHANGED <<envVars, auxVars, obsVars, mgrVars, calls, loop, tx, handed>>

\* read_batch: one turn of `while len(out) < max_items:` that pops a frame
\* with self._rxq.get_nowait().
read_batch_get ==
    LET b == rx.b
        q == backends[b].rxq IN
    /\ rx.pc = "read"
    /\ Len(rx.out) < rx.max_items
    /\ q # <<>>
    /\ SetBackend(b, [backends[b] EXCEPT !.rxq = Tail(q)])
    /\ rx' = [rx EXCEPT !.out = Append(@, Head(q))]
    /\ delivered' = [delivered EXCEPT ![b] = Head(q)]
    /\ UNCHANGED <<envVars, auxVars, obsVars, mgrVars, calls, loop, tx, handed>>

\* A get_rx_batch that leaves its loop after the first poll, empty or not.
read_batch_return_always ==
    /\ rx.pc = "read"
    /\ Len(rx.out) >= rx.max_items \/ backends[rx.b].rxq = <<>>
    /\ rx' = [rx EXCEPT !.pc = "idle", !.items = rx.items \o rx.out,
                        !.out = <<>>, !.b = 0, !.ret = "returned"]
    /\ loop' = "free"
    /\ UNCHANGED <<envVars, auxVars, obsVars, mgrVars, backends, calls, tx, histVars>>

\* read_batch returns (max_items reached, or queue.Empty); get_rx_batch
\* then either has a batch (`items.extend(batch); break`, and returns) or
\* sleeps: `await asyncio.sleep(0.01)`.
read_batch_return ==
    /\ rx.pc = "read"
    /\ Len(rx.out) >= rx.max_items \/ backends[rx.b].rxq = <<>>
    /\ rx' = IF rx.out # <<>>
             THEN [rx EXCEPT !.pc = "idle", !.items = rx.items \o rx.out,
                             !.out = <<>>, !.b = 0, !.ret = "returned"]
             ELSE [rx EXCEPT !.pc = "sleep"]
    /\ loop' = "free"
    /\ UNCHANGED <<envVars, auxVars, obsVars, mgrVars, backends, calls, tx, histVars>>

\* The sleep ends: at least one poll interval has passed.
get_rx_batch_wake ==
    /\ rx.pc = "sleep"
    /\ loop = "free"
    /\ loop' = "rx"
    /\ \E d \in 1..2 :
         rx' = [rx EXCEPT !.pc = "poll", !.elapsed = Min(@ + d, MaxTimeout)]
    /\ UNCHANGED <<envVars, auxVars, obsVars, mgrVars, backends, calls, tx, histVars>>

\* ------------------------------------------------- decoder.decode_frame
\* The value of one character as a base-16 digit, 16 for a character that
\* is no hexadecimal digit.
HexDigit(c) ==
    CASE c = "0" -> 0 [] c = "1" -> 1 [] c = "2" -> 2 [] c = "3" -> 3
      [] c = "4" -> 4 [] c = "5" -> 5 [] c = "6" -> 6 [] c = "7" -> 7
      [] c = "8" -> 8 [] c = "9" -> 9
      [] c \in {"A", "a"} -> 10 [] c \in {"B", "b"} -> 11
      [] c \in {"C", "c"} -> 12 [] c \in {"D", "d"} -> 13
      [] c \in {"E", "e"} -> 14 [] c \in {"F", "f"} -> 15
      [] OTHER -> 16

\* int(s, 16) raises ValueError: s is empty or holds a character that is no
\* digit.  (Signs, blanks, a 0x prefix and underscores, which int() also
\* takes, are in none of the frames given here.)
HexInvalid(s) == s = <<>> \/ \E i \in 1..Len(s) : HexDigit(s[i]) = 16

\* int(s, 16) for a string of hexadecimal digits.
RECURSIVE HexValue(_)
HexValue(s) ==
    IF s = <<>> THEN 0
    ELSE 16 * HexValue(SubSeq(s, 1, Len(s) - 1)) + HexDigit(s[Len(s)])

\* (arb >> n) & 0xFF for n = 8 * k.
ByteOf(arb, k) == (arb \div (256 ^ k)) % 256

\* pgn of line 20 with PDU1 identifiers keeping their destination byte.
pgn_keep_ps(arb) == ByteOf(arb, 2) * 256 + ByteOf(arb, 1)

\* pgn = (pdu_format<<8)|pdu_specific if pdu_format>=240 else (pdu_format<<8)
pgn_of(arb) ==
    LET pdu_format == ByteOf(arb, 2)
        pdu_specific == ByteOf(arb, 1) IN
    IF pdu_format >= 240 THEN pdu_format * 256 + pdu_specific
    ELSE pdu_format * 256

\* The payload length decode_frame pads to.
PayloadLen == 8

\* A padding that puts the zero bytes before the payload.
pad_left(data) ==
    [i \in 1..(IF Len(data) < PayloadLen THEN PayloadLen - Len(data) ELSE 0) |-> 0]
        \o data

\* b = list(fr.data) + [0] * (8 - len(fr.data))
pad(data) ==
    data \o [i \in 1..(IF Len(data) < PayloadLen THEN PayloadLen - Len(data) ELSE 0) |-> 0]

\* A signal's value: 'N/A', or the number num / den.
NA == [na |-> TRUE, num |-> 0, den |-> 1]
Num(n, d) == [na |-> FALSE, num |-> n, den |-> d]

\* round(n / d, 3) as a number of thousandths: the nearest one, a tie going
\* to the even one (Python's round on a value the float holds exactly).
Round3(n, d) ==
    LET q == (n * 1000) \div d
        r == (n * 1000) % d IN
    Num(IF 2 * r < d THEN q
        ELSE IF 2 * r > d THEN q + 1
        ELSE IF q % 2 = 0 THEN q ELSE q + 1, 1000)

\* A sentinel test that takes the byte 0x00 for "not available".
_is_na_zero(x) == x = 0

_is_na(x) == x = 255

\* A 16-bit read that takes the first byte for the high one.
_u16_be(lo, hi) == lo * 256 + hi

_u16(lo, hi) == hi * 256 + lo

\* b[i] of the padded payload, indexed from 0 as in the code.
At(b, i) == b[i + 1]

\* The highest index decode_frame reads for a PGN it decodes.
LastIndex(pgn) ==
    CASE pgn = 65253 -> 3 [] pgn = 65262 -> 3 [] pgn = 65263 -> 7
      [] pgn = 65272 -> 5 [] pgn = 65266 -> 5 [] pgn = 65276 -> 1
      [] pgn = 61443 -> 2 [] OTHER -> 0

\* The keys the `if pgn == ...` blocks put in d, without the sixth one of
\* PGN 65263's block.
keys_short(pgn) ==
    CASE pgn = 65253 -> {"Engine Hours (h)"}
      [] pgn = 65262 -> {"Coolant Temp (degC)", "Fuel Temp (degC)", "Oil Temp (degC)"}
      [] pgn = 65263 -> {"Fuel Delivery Pressure (kPa)", "Engine Oil Pressure (kPa)",
                         "Coolant Pressure (kPa)"}
      [] pgn = 65272 -> {"Trans Oil Pressure (kPa)", "Trans Oil Temp (degC)"}
      [] pgn = 65266 -> {"Fuel Rate (L/h)", "Avg Fuel Economy (km/L)"}
      [] pgn = 65276 -> {"Fuel Level (%)"}
      [] pgn = 61443 -> {"Engine Load (%)"}
      [] OTHER -> {}

\* The keys the `if pgn == ...` blocks (lines 23-56) put in d.  The degree
\* sign of the source's key names is written "deg".
keys(pgn) ==
    CASE pgn = 65253 -> {"Engine Hours (h)"}
      [] pgn = 65262 -> {"Coolant Temp (degC)", "Fuel Temp (degC)", "Oil Temp (degC)"}
      [] pgn = 65263 -> {"Fuel Delivery Pressure (kPa)", "Engine Oil Pressure (kPa)",
                         "Coolant Pressure (kPa)", "Coolant Level (%)"}
      [] pgn = 65272 -> {"Trans Oil Pressure (kPa)", "Trans Oil Temp (degC)"}
      [] pgn = 65266 -> {"Fuel Rate (L/h)", "Avg Fuel Economy (km/L)"}
      [] pgn = 65276 -> {"Fuel Level (%)"}
      [] pgn = 61443 -> {"Engine Load (%)"}
      [] OTHER -> {}

\* The value each block computes for its key from the padded payload b.
signal(k, b) ==
    CASE k = "Engine Hours (h)" ->
           IF \E i \in 0..3 : At(b, i) = 255 THEN NA
           ELSE Num(At(b, 0) + At(b, 1) * 256 + At(b, 2) * 65536
                      + At(b, 3) * 16777216, 20)
      [] k = "Coolant Temp (degC)" ->
           IF _is_na(At(b, 0)) THEN NA ELSE Num(At(b, 0) - 40, 1)
      [] k = "Fuel Temp (degC)" ->
           IF _is_na(At(b, 1)) THEN NA ELSE Num(At(b, 1) - 40, 1)
      [] k = "Oil Temp (degC)" ->
           IF _is_na(At(b, 2)) \/ _is_na(At(b, 3)) THEN NA
           ELSE Round3(_u16(At(b, 2), At(b, 3)) - 273 * 32, 32)
      [] k = "Fuel Delivery Pressure (kPa)" ->
           IF _is_na(At(b, 0)) THEN NA ELSE Num(At(b, 0) * 4, 1)
      [] k = "Engine Oil Pressure (kPa)" ->
           IF _is_na(At(b, 3)) THEN NA ELSE Num(At(b, 3) * 4, 1)
      [] k = "Coolant Pressure (kPa)" ->
           IF _is_na(At(b, 6)) THEN NA ELSE Num(At(b, 6) * 2, 1)
      [] k = "Coolant Level (%)" ->
           IF _is_na(At(b, 7)) THEN NA ELSE Round3(At(b, 7) * 4, 10)
      [] k = "Trans Oil Pressure (kPa)" ->
           IF _is_na(At(b, 3)) THEN NA ELSE Num(At(b, 3) * 16, 1)
      [] k = "Trans Oil Temp (degC)" ->
           IF _is_na(At(b, 4)) \/ _is_na(At(b, 5)) THEN NA
           ELSE Round3(_u16(At(b, 4), At(b, 5)) - 273 * 32, 32)
      [] k = "Fuel Rate (L/h)" ->
           IF _is_na(At(b, 0)) \/ _is_na(At(b, 1)) THEN NA
           ELSE Round3(_u16(At(b, 0), At(b, 1)) * 5, 100)
      [] k = "Avg Fuel Economy (km/L)" ->
           IF _is_na(At(b, 4)) \/ _is_na(At(b, 5)) THEN NA
           ELSE Round3(_u16(At(b, 4), At(b, 5)), 512)
      [] k = "Fuel Level (%)" ->
           IF _is_na(At(b, 1)) THEN NA ELSE Round3(At(b, 1) * 4, 10)
      [] k = "Engine Load (%)" ->
           IF _is_na(At(b, 2)) THEN NA ELSE Num(At(b, 2), 1)

\* decode_frame(fr) for fr.id_hex = id_hex and fr.data = data.  An index
\* past the end of b raises IndexError.
decode_frame(id_hex, data) ==
    IF HexInvalid(id_hex)
    THEN [ret |-> "returned", pgn |-> Null, sa |-> Null, decoded |-> <<>>]
    ELSE LET arb == HexValue(id_hex)
             sa == ByteOf(arb, 0)
             pgn == pgn_of(arb)
             b == pad(data) IN
         IF keys(pgn) # {} /\ Len(b) <= LastIndex(pgn)
         THEN [NoOut EXCEPT !.ret = "IndexError"]
         ELSE [ret |-> "returned", pgn |-> Some(pgn), sa |-> Some(sa),
               decoded |-> [k \in keys(pgn) |-> signal(k, b)]]

\* The bytes payloads are made of: zero, the sentinel 0xFF, and 0x22.
Bytes == {0, 34, 255}
\* The payloads of tests/test_decoder.py: A0860100FFFFFFFF, 2241602DFFFFFFFF.
TestPayloads ==
    {<<160, 134, 1, 0, 255, 255, 255, 255>>, <<34, 65, 96, 45, 255, 255, 255, 255>>}
Payloads == UNION {[1..n -> Bytes] : n \in 0..PayloadLen} \cup TestPayloads

\* Identifiers, as the text Frame.id_hex holds: one per PGN the decoder
\* knows, PDU1 identifiers (pdu_format < 240), PGNs it does not know, zero,
\* the largest 29-bit identifier, an 11-bit identifier, and three that
\* int(.., 16) rejects (a letter that is no digit, a blank inside, empty).
IdHexes ==
    {<<"1","8","F","E","E","5","F","F">>, <<"1","8","F","E","E","E","F","F">>,
     <<"1","8","F","E","E","F","0","0">>, <<"1","8","F","E","F","8","0","3">>,
     <<"1","8","f","e","f","2","2","1">>, <<"1","8","F","E","F","C","1","7">>,
     <<"0","C","F","0","0","3","0","0">>, <<"0","C","F","0","0","4","0","0">>,
     <<"1","8","E","A","F","F","F","9">>, <<"1","8","E","F","E","5","0","1">>,
     <<"1","8","F","E","C","A","0","0">>, <<"0","0","0","0","0","0","0","0">>,
     <<"1","F","F","F","F","F","F","F">>, <<"7","F","F">>,
     <<"1","8","F","E","G","5","F","F">>, <<"1","8"," ","F","F">>, <<>>}

\* decode_frame returns (or raises): the frame given is decoded.
decode_frame_call ==
    /\ dec.pc = "given"
    /\ dec' = [dec EXCEPT !.pc = "done", !.out = decode_frame(dec.id_hex, dec.data)]
    /\ UNCHANGED <<envVars, auxVars, mgrVars, backends, calls, loop, tx, rx, histVars,
                   snap, st, echoVars>>

\* ----------------------------------------------------------- selftest
\* The driver read returns a frame this program sent (the socket is opened
\* with receive_own_messages=True): a frame with the sentinel's identifier
\* and payload.
recv_echo(b) ==
    /\ backends[b].th = "recv"
    /\ backends[b].hw = "open"
    /\ loopq[b] > 0
    /\ backends[b].seq + 1 <= MaxFrames
    /\ SetBackend(b, [backends[b] EXCEPT
           !.th = "put",
           !.seq = @ + 1,
           !.pend = <<backends[b].seq + 1>>])
    /\ marks' = [marks EXCEPT ![b] = @ \cup {backends[b].seq + 1}]
    /\ loopq' = [loopq EXCEPT ![b] = @ - 1]
    /\ UNCHANGED <<envVars, auxVars, mgrVars, calls, loop, tx, rx, histVars, snap, st, dec>>

\* The driver read returns a frame of another node that has the
\* sentinel's identifier or the sentinel's payload, not both.
recv_partial(b, cls) ==
    /\ backends[b].th = "recv"
    /\ backends[b].hw = "open"
    /\ backends[b].seq + 1 <= MaxFrames
    /\ SetBackend(b, [backends[b] EXCEPT
           !.th = "put",
           !.seq = @ + 1,
           !.pend = <<backends[b].seq + 1>>])
    /\ partial' = [partial EXCEPT ![b] =
           IF cls = "id_only" THEN [@ EXCEPT !.id_only = @ \cup {backends[b].seq + 1}]
           ELSE [@ EXCEPT !.data_only = @ \cup {backends[b].seq + 1}]]
    /\ UNCHANGED <<envVars, bu, failed, gb, obsVars, mgrVars, calls, loop, tx, rx, histVars>>

\* `fr.id_hex.upper() == test_id_hex` for frame f of backend b.
IdMatches(b, f) == f \in marks[b] \cup partial[b].id_only
\* `fr.data.hex().upper() == test_data_hex`
DataMatches(b, f) == f \in marks[b] \cup partial[b].data_only

\* A test of the identifier alone.
IsSentinelId(b, f) == IdMatches(b, f)

\* The test of selftest's for loop: identifier and payload both match.
IsSentinel(b, f) == IdMatches(b, f) /\ DataMatches(b, f)

\* Backend.read_batch(max_items) on queue q, taken in one piece: the frames
\* it returns.
ReadBatch(q, n) == SubSeq(q, 1, Min(n, Len(q)))

\* A selftest without the drain.
selftest_call_nodrain ==
    /\ st.pc = "idle"
    /\ loop = "free"
    /\ IF _bus = Unset
       THEN /\ st' = [IdleSt EXCEPT !.ret = "AttributeError"]
            /\ UNCHANGED loop
       ELSE IF _bus = None
       THEN /\ st' = [IdleSt EXCEPT !.ret = "returned", !.connected = "False"]
            /\ UNCHANGED loop
       ELSE /\ st' = [IdleSt EXCEPT !.pc = "send",
                         !.stale = {backends[_bus.id].rxq[i] : i \in DOMAIN backends[_bus.id].rxq}]
            /\ loop' = "st"
    /\ UNCHANGED <<envVars, auxVars, mgrVars, backends, calls, tx, rx, histVars, snap,
                   echoVars, dec>>

\* selftest is called: `if self._bus is None: return {"connected": False,
\* ...}`, then the drain, self._bus.read_batch(10000) (the whole queue).
selftest_call ==
    /\ st.pc = "idle"
    /\ loop = "free"
    /\ IF _bus = Unset
       THEN /\ st' = [IdleSt EXCEPT !.ret = "AttributeError"]
            /\ UNCHANGED <<loop, backends>>
       ELSE IF _bus = None
       THEN /\ st' = [IdleSt EXCEPT !.ret = "returned", !.connected = "False"]
            /\ UNCHANGED <<loop, backends>>
       ELSE /\ st' = [IdleSt EXCEPT !.pc = "send",
                         !.stale = {backends[_bus.id].rxq[i] : i \in DOMAIN backends[_bus.id].rxq}]
            /\ loop' = "st"
            /\ SetBackend(_bus.id, [backends[_bus.id] EXCEPT !.rxq = <<>>])
    /\ UNCHANGED <<envVars, auxVars, mgrVars, calls, tx, rx, histVars, snap, echoVars, dec>>

\* self._bus.send(test_id_hex, test_data_hex) in its try: on an exception
\* the call returns {"connected": True, "tx_ok": False, "error": str(e)};
\* else `deadline = time.time() + timeout_ms / 1000.0`.  echo: the channel
\* will loop the frame back to this socket (within the MaxFrames frames the
\* driver delivers over its life).
selftest_send ==
    /\ st.pc = "send"
    /\ loop = "st"
    /\ \E accept \in BOOLEAN, echo \in BOOLEAN :
         LET b == _bus.id
             err == BackendSend(b, "good", accept) IN
         IF err # ""
         THEN /\ ~echo
              /\ st' = [st EXCEPT !.pc = "idle", !.ret = "returned",
                                  !.connected = "True", !.error = TRUE]
              /\ loop' = "free"
              /\ UNCHANGED loopq
         ELSE /\ echo => backends[b].seq + loopq[b] < MaxFrames
              /\ st' = [st EXCEPT !.pc = "poll", !.tx_ok = TRUE, !.b = b,
                                  !.seq0 = backends[b].seq]
              /\ loopq' = [loopq EXCEPT ![b] = IF echo THEN @ + 1 ELSE @]
              /\ UNCHANGED loop
    /\ UNCHANGED <<envVars, auxVars, mgrVars, backends, calls, tx, rx, histVars, snap,
                   marks, dec>>

\* A selftest that gives up after one poll without the echo instead of
\* sleeping until its deadline.
selftest_poll_once ==
    /\ st.pc = "poll"
    /\ loop = "st"
    /\ LET b == IF _bus.st = "ref" THEN ReadBatch(backends[_bus.id].rxq, QueueMaxsize)
                ELSE <<>>
           hit == \E i \in 1..Len(b) : IsSentinel(_bus.id, b[i]) IN
       /\ st' = [st EXCEPT !.rx_seen = @ + Len(b), !.echo_rx = hit,
                           !.pc = "idle", !.ret = "returned", !.connected = "True"]
       /\ IF _bus.st = "ref"
          THEN SetBackend(_bus.id, [backends[_bus.id] EXCEPT
                   !.rxq = SubSeq(@, Len(b) + 1, Len(@))])
          ELSE UNCHANGED backends
    /\ loop' = "free"
    /\ UNCHANGED <<envVars, auxVars, mgrVars, calls, tx, rx, histVars, snap, echoVars, dec>>

\* One turn of `while time.time() < deadline:`.  self._bus is read again:
\* when it is None, `self._bus.read_batch` raises AttributeError inside the
\* try and b = [].  read_batch(1000) takes what the queue holds; a frame with
\* the sentinel's id and payload ends the loop.  Past the deadline, or with
\* the echo seen, the call returns its result; else it sleeps.
selftest_poll ==
    /\ st.pc = "poll"
    /\ loop = "st"
    /\ IF st.elapsed >= MaxDeadline
       THEN /\ st' = [st EXCEPT !.pc = "idle", !.ret = "returned", !.connected = "True"]
            /\ UNCHANGED backends
       ELSE LET b == IF _bus.st = "ref" THEN ReadBatch(backends[_bus.id].rxq, QueueMaxsize)
                     ELSE <<>>
                hit == \E i \in 1..Len(b) : IsSentinel(_bus.id, b[i]) IN
            /\ st' = IF hit
                     THEN [st EXCEPT !.rx_seen = @ + Len(b), !.echo_rx = TRUE,
                                     !.pc = "idle", !.ret = "returned",
                                     !.connected = "True"]
                     ELSE [st EXCEPT !.rx_seen = @ + Len(b), !.pc = "sleep"]
            /\ IF _bus.st = "ref"
               THEN SetBackend(_bus.id, [backends[_bus.id] EXCEPT
                        !.rxq = SubSeq(@, Len(b) + 1, Len(@))])
               ELSE UNCHANGED backends
    /\ loop' = "free"
    /\ UNCHANGED <<envVars, auxVars, mgrVars, calls, tx, rx, histVars, snap, echoVars, dec>>

\* `await asyncio.sleep(0.01)` ends: at least one poll interval has passed.
selftest_wake ==
    /\ st.pc = "sleep"
    /\ loop = "free"
    /\ loop' = "st"
    /\ \E d \in 1..2 :
         st' = [st EXCEPT !.pc = "poll", !.elapsed = Min(@ + d, MaxDeadline)]
    /\ UNCHANGED <<envVars, auxVars, mgrVars, backends, calls, tx, rx, histVars, snap,
                   echoVars, dec>>

\* ------------------------------------------------------------- health
\* A health_snapshot that reports the failure of the backend's health() in
\* an "error" key.
health_snapshot_fold(raises) ==
    IF _bus = Unset THEN [raised |-> "AttributeError", body |-> NoSnapshot]
    ELSE IF _bus = None
    THEN [raised |-> "none", body |-> Snapshot("disconnected", FALSE, FALSE)]
    ELSE [raised |-> "none",
          body |-> [Snapshot("connected", _info.st = "set", ~raises)
                        EXCEPT !.error = raises]]

\* BusManager.health_snapshot.  `self._bus` is read first: AttributeError
\* when the attribute is not bound.  raises: the backend's health() raises
\* (the health() of the two variants in bus.py catches what its driver call
\* raises; the `except Exception: pass` around the call is for a backend
\* whose health() does raise).  base.update(self._info) adds the
\* ConnectionInfo keys when connect has stored them.
health_snapshot(raises) ==
    IF _bus = Unset THEN [raised |-> "AttributeError", body |-> NoSnapshot]
    ELSE IF _bus = None
    THEN [raised |-> "none", body |-> Snapshot("disconnected", FALSE, FALSE)]
    ELSE [raised |-> "none",
          body |-> Snapshot("connected", _info.st = "set", ~raises)]

\* bus_health_snapshot_safe of app.py, with the manager built (the module
\* global _bus is not None): what health_snapshot returns, or
\* {"ready": False, "error": str(e)} when it raises.
bus_health_snapshot_safe(r) ==
    IF r.raised # "none"
    THEN [NoSnapshot EXCEPT !.ready = "False", !.error = TRUE]
    ELSE r.body

\* GET /api/health: a coroutine with no await, so it runs in one piece
\* when no other coroutine is in a synchronous stretch.
health(raises) ==
    LET r == health_snapshot(raises) IN
    /\ loop = "free"
    /\ raises => _bus.st = "ref"
    /\ snap' = [ret |-> "returned", raises |-> raises,
                inner |-> IF r.raised = "none" THEN "returned" ELSE r.raised,
                body |-> bus_health_snapshot_safe(r)]
    /\ UNCHANGED <<envVars, auxVars, mgrVars, backends, calls, loop, tx, rx, histVars,
                   st, echoVars, dec>>

\* ------------------------------------------- /api/can/bringup (app.py)
\* _safe_bitrate's allowed set.
allowed == {125000, 250000, 500000, 1000000}
\* The bitrates a request can carry: None (0), the allowed ones, and two
\* that are not allowed.
Bitrates == {0} \cup allowed \cup {123456, 800000}

\* How a run of a command can end: exit status 0; a status with no
\* permission message (2), 1, 126, 127; a status with "Operation not
\* permitted" on stderr (eperm); subprocess.run raising PermissionError
\* because the binary may not be executed (eacces); for `ip link add`, a
\* status with "File exists" on stderr.
DirectOutcomes(cmd) ==
    {"ok", "rc2", "rc1", "rc126", "rc127", "eperm", "eacces"}
        \cup (IF cmd = "add" THEN {"file_exists"} ELSE {})
\* A run through pkexec: done, the command's own failure, or the
\* authorisation dismissed (pkexec exits 126).
HelperOutcomes(cmd) ==
    {"ok", "rc2", "rc126"} \cup (IF cmd = "add" THEN {"file_exists"} ELSE {})

\* `"Operation not permitted" in (e.stderr or "") or e.returncode in (1, 126)`
permission_problem(d) == d \in {"eperm", "rc1", "rc126"}

\* Whether _run_priv runs the command again through pkexec. With
\* check=False subprocess.run raises no CalledProcessError, so only a
\* PermissionError reaches an except branch.
Retries(check, d, helper) ==
    helper /\ (d = "eacces" \/ (check /\ d # "ok" /\ permission_problem(d)))

\* _run_priv(cmd, check) when the direct run ends as d and the run through
\* pkexec, if there is one, as h.
_run_priv(cmd, check, d, h, helper) ==
    LET final == IF Retries(check, d, helper) THEN h ELSE d IN
    [cmd |-> cmd, check |-> check, d |-> d,
     h |-> IF Retries(check, d, helper) THEN h ELSE "none",
     exc |-> CASE final = "ok" -> "none"
               [] final = "eacces" -> "PermissionError"
               [] check -> "CalledProcessError"
               [] OTHER -> "none"]

\* The entries a _run_priv call adds to the log.
Issued(r, bitrate) ==
    <<[cmd |-> r.cmd, via |-> "direct", bitrate |-> bitrate]>>
        \o (IF r.h = "none" THEN <<>>
            ELSE <<[cmd |-> r.cmd, via |-> "helper", bitrate |-> bitrate]>>)

\* The runs a _run_priv call can make: a direct one, and one through the
\* helper when the direct one calls for it.
Runs(cmd, check, helper) ==
    { _run_priv(cmd, check, d, h, helper) :
        d \in DirectOutcomes(cmd),
        h \in HelperOutcomes(cmd) }

BuUnchanged ==
    UNCHANGED <<envVars, failed, partial, gb, mgrVars, backends, calls, loop, tx, rx, histVars, obsVars>>

\* POST /api/can/bringup up to the first command: the platform test, iface
\* and bitrate = int(req.bitrate or 250000).
api_can_bringup(linux, vcan, req, helper) ==
    /\ bu.pc \in {"idle", "done"}
    /\ bu' = IF linux
             THEN [IdleBu EXCEPT !.pc = "modprobe_can", !.vcan = vcan, !.req = req,
                                 !.bitrate = IF req = 0 THEN 250000 ELSE req,
                                 !.helper = helper]
             ELSE [IdleBu EXCEPT !.pc = "done", !.vcan = vcan, !.req = req,
                                 !.helper = helper, !.res = "400"]
    /\ BuUnchanged

\* `try: _run_priv(["modprobe", mod], check=False) except Exception: pass`
modprobe(mod) ==
    /\ bu.pc = IF mod = "can" THEN "modprobe_can" ELSE "modprobe_can_raw"
    /\ \E r \in Runs("modprobe", FALSE, bu.helper) :
          bu' = [bu EXCEPT !.pc = IF mod = "can" THEN "modprobe_can_raw" ELSE "ip_exists",
                           !.log = @ \o Issued(r, 0), !.last = r]
    /\ BuUnchanged

\* exists = _ip_exists(iface); before = ...; then the branch on the name.
ip_exists(exists) ==
    /\ bu.pc = "ip_exists"
    /\ bu' = [bu EXCEPT !.exists = exists,
                        !.pc = IF bu.vcan THEN (IF exists THEN "vcan_up" ELSE "vcan_add")
                               ELSE "down"]
    /\ BuUnchanged

\* How the handler ends when a command raised: CalledProcessError becomes
\* HTTPException(500); a PermissionError is not caught.
Raised(r) == IF r.exc = "CalledProcessError" THEN "500" ELSE r.exc

\* `ip link add dev <iface> type vcan`, check=True; "File exists" is ignored.
vcan_add ==
    /\ bu.pc = "vcan_add"
    /\ \E r \in Runs("add", TRUE, bu.helper) :
          LET final == IF r.h = "none" THEN r.d ELSE r.h
              goes == r.exc = "none" \/ (r.exc = "CalledProcessError" /\ final = "file_exists") IN
          bu' = [bu EXCEPT !.pc = IF goes THEN "vcan_up" ELSE "done",
                           !.res = IF goes THEN "none" ELSE Raised(r),
                           !.log = @ \o Issued(r, 0), !.last = r]
    /\ BuUnchanged

\* `ip link set <iface> up` of a vcan interface, check=True, and the return.
vcan_up ==
    /\ bu.pc = "vcan_up"
    /\ \E r \in Runs("up", TRUE, bu.helper) :
          bu' = [bu EXCEPT !.pc = "done",
                           !.res = IF r.exc = "none" THEN "ok" ELSE Raised(r),
                           !.log = @ \o Issued(r, 0), !.last = r]
    /\ BuUnchanged

\* A link-down run with check=True.
link_down_checked ==
    /\ bu.pc = "down"
    /\ \E r \in Runs("down", TRUE, bu.helper) :
          bu' = [bu EXCEPT !.pc = IF r.exc = "none" THEN "type" ELSE "done",
                           !.res = IF r.exc = "none" THEN "none" ELSE Raised(r),
                           !.log = @ \o Issued(r, 0), !.last = r]
    /\ BuUnchanged

\* `_run_priv(["ip", "link", "set", iface, "down"], check=False)`
link_down ==
    /\ bu.pc = "down"
    /\ \E r \in Runs("down", FALSE, bu.helper) :
          bu' = [bu EXCEPT !.pc = IF r.exc = "none" THEN "type" ELSE "done",
                           !.res = IF r.exc = "none" THEN "none" ELSE Raised(r),
                           !.log = @ \o Issued(r, 0), !.last = r]
    /\ BuUnchanged

\* `_run_priv(["ip", "link", "set", iface, "type", "can", "bitrate",
\* str(bitrate)], check=True)`
link_type ==
    /\ bu.pc = "type"
    /\ \E r \in Runs("type", TRUE, bu.helper) :
          bu' = [bu EXCEPT !.pc = IF r.exc = "none" THEN "up" ELSE "done",
                           !.res = IF r.exc = "none" THEN "none" ELSE Raised(r),
                           !.log = @ \o Issued(r, bu.bitrate), !.last = r]
    /\ BuUnchanged

\* `_run_priv(["ip", "link", "set", iface, "up"], check=True)`, then
\* final = _ip_details(iface) and the return.
link_up ==
    /\ bu.pc = "up"
    /\ \E r \in Runs("up", TRUE, bu.helper) :
          bu' = [bu EXCEPT !.pc = "done",
                           !.res = IF r.exc = "none" THEN "ok" ELSE Raised(r),
                           !.log = @ \o Issued(r, 0), !.last = r]
    /\ BuUnchanged

\* ---------------------------------------------------------- specifications
\* What callers can start at any time, and the steps that read the
\* manager's attributes first.
CallerNext ==
    \/ \E c \in CallIds, ch \in Channels : connect_call(c, ch)
    \/ \E c \in CallIds : disconnect_call(c)
    \/ \E c \in CallIds : lock_acquire(c)
    \/ \E req \in Requests : send_call(req)
    \/ send_frame
    \/ send_return
    \/ \E t \in 0..MaxTimeout, m \in 1..MaxItems : get_rx_batch_call(t, m)
    \/ get_rx_batch_poll
    \/ \E raises \in BOOLEAN : health(raises)
    \/ selftest_call

\* The program from the state its constructor leaves.  Every method raises
\* AttributeError at its first read of _lock or _bus, so no step of a
\* teardown, an open, a capture loop or a read_batch is ever enabled:
\* CallerNext is the whole next-state relation from Init.
Next == CallerNext

Spec == Init /\ [][Next]_vars

\* connect / disconnect past the lock, with the worker threads' steps.
ConnNext(c) ==
    \/ lock_acquire(c)
    \/ _disconnect_no_lock(c)
    \/ close_stop(c)
    \/ close_join(c)
    \/ close_shutdown(c)
    \/ _disconnect_resume(c)
    \/ disconnect_return(c)
    \/ connect_try(c)
    \/ open_run(c)
    \/ connect_opened(c)
    \/ connect_failed(c)

\* The connection lifecycle under concurrent callers, from a manager whose
\* attributes are bound.  The capture threads run and read the driver; the
\* frames they would move are left out (no step of the lifecycle reads a
\* queue), as are send and get_rx_batch (they write no manager or backend
\* field the lifecycle reads).
LifeNext ==
    \/ \E c \in CallIds, ch \in Channels : connect_call(c, ch)
    \/ \E c \in CallIds : disconnect_call(c)
    \/ \E c \in CallIds : ConnNext(c)
    \/ \E b \in BackendIds : loop_top(b)
    \/ \E b \in BackendIds : recv_nothing(b)

SpecLife == InitAttrs /\ [][LifeNext]_vars

\* The lifecycle when everything that can run does run. The event loop
\* runs its ready callbacks in FIFO order and asyncio.Lock wakes its
\* waiters in FIFO order, so a coroutine whose next step is enabled again
\* and again takes it; the worker threads of open() and close() and the
\* capture threads are scheduled by the OS and their driver calls return.
SpecLifeFair ==
    /\ SpecLife
    /\ \A c \in CallIds : SF_vars(ConnNext(c))
    /\ \A b \in BackendIds : WF_vars(loop_top(b) \/ recv_nothing(b))

\* The channel names of the three variants: a SocketCAN interface, an
\* Intrepid device, a Kvaser channel ("kvaser<N>").
RouteChannels == Channels \cup {"kvaser0"}

\* One caller's connects and disconnects over the names of all variants, on
\* managers whose constructors selected different defaults.
RouteNext ==
    \/ \E ch \in RouteChannels : connect_call(1, ch)
    \/ disconnect_call(1)
    \/ ConnNext(1)
    \/ \E b \in BackendIds : loop_top(b)
    \/ \E b \in BackendIds : recv_nothing(b)

SpecRoute == InitRoute /\ [][RouteNext]_vars

\* Bring-up requests one after the other, of physical and virtual
\* interfaces, with and without the helper.
BringupNext ==
    \/ \E linux \in BOOLEAN, vcan \in BOOLEAN, req \in Bitrates, helper \in BOOLEAN :
          api_can_bringup(linux, vcan, req, helper)
    \/ \E mod \in {"can", "can_raw"} : modprobe(mod)
    \/ \E exists \in BOOLEAN : ip_exists(exists)
    \/ vcan_add
    \/ vcan_up
    \/ link_down
    \/ link_type
    \/ link_up

SpecBringup == Init /\ [][BringupNext]_vars

\* The first connection of a manager: no backend has been instantiated.
connect_first(ch) ==
    /\ Instantiated = {}
    /\ connect_call(1, ch)

CaptureNext(b) ==
    \/ loop_top(b)
    \/ recv_frames(b)
    \/ recv_nothing(b)
    \/ socketcan_put(b)
    \/ socketcan_evict(b)
    \/ socketcan_put2(b)
    \/ intrepid_put(b)

\* One connection's life with its frames: one caller connects and
\* disconnects, the capture loop fills the queue, get_rx_batch drains it.
RxNext ==
    \/ \E ch \in Channels : connect_first(ch)
    \/ disconnect_call(1)
    \/ ConnNext(1)
    \/ \E b \in BackendIds : CaptureNext(b)
    \/ \E t \in 0..MaxTimeout, m \in 1..MaxItems : get_rx_batch_call(t, m)
    \/ get_rx_batch_poll
    \/ read_batch_get
    \/ read_batch_return
    \/ get_rx_batch_wake

SpecRx == InitAttrs /\ [][RxNext]_vars

\* One connection's capture thread with driver reads that return frames,
\* return nothing, or raise, up to and past the disconnect that stops it.
CaptureLoopNext ==
    \/ \E ch \in Channels : connect_first(ch)
    \/ disconnect_call(1)
    \/ ConnNext(1)
    \/ \E b \in BackendIds : CaptureNext(b)
    \/ \E b \in BackendIds : recv_raises(b)

SpecCapture == InitAttrs /\ [][CaptureLoopNext]_vars

\* The capture thread is scheduled by the OS and each driver read returns
\* (recv(0.02) has a timeout); the disconnect runs as in SpecLifeFair.
SpecCaptureFair ==
    /\ SpecCapture
    /\ SF_vars(ConnNext(1))
    /\ \A b \in BackendIds : WF_vars(CaptureNext(b))

\* One backend object and one caller that calls open() and close() on it
\* one after the other, in any order and close() any number of times.
CloseNext ==
    \/ \E k \in {"socketcan", "intrepid"} : backend_new(k)
    \/ \E b \in BackendIds : open_call(1, b)
    \/ open_run(1)
    \/ open_return(1)
    \/ \E b \in BackendIds : close_call(1, b)
    \/ close_stop(1)
    \/ close_join(1)
    \/ close_shutdown(1)
    \/ close_return(1)
    \/ \E b \in BackendIds : loop_top(b)
    \/ \E b \in BackendIds : recv_nothing(b)

SpecClose == Init /\ [][CloseNext]_vars

\* Health requests over one caller's connects and disconnects, with the
\* capture thread running.
HealthNext ==
    \/ \E ch \in Channels : connect_call(1, ch)
    \/ disconnect_call(1)
    \/ ConnNext(1)
    \/ \E b \in BackendIds : loop_top(b)
    \/ \E b \in BackendIds : recv_nothing(b)
    \/ \E raises \in BOOLEAN : health(raises)

SpecHealth == InitAttrs /\ [][HealthNext]_vars

\* decode_frame applied to one frame: the state the constructor leaves, with
\* a frame to decode drawn from IdHexes x Payloads.
InitDecode ==
    /\ _lock = Unset
    /\ _bus = Unset
    /\ _info = InfoUnset
    /\ InitCore
    /\ _impl_name = DefaultImpl(FALSE)
    /\ dec \in {[NoDec EXCEPT !.pc = "given", !.id_hex = i, !.data = d] :
                    i \in IdHexes, d \in Payloads}

DecodeNext == decode_frame_call

SpecDecode == InitDecode /\ [][DecodeNext]_vars

SelftestNext ==
    \/ selftest_call
    \/ selftest_send
    \/ selftest_poll
    \/ selftest_wake

\* selftest over one connection's life: the capture loop with the channel's
\* own traffic and the looped-back frames, and a disconnect at any time.
TestNext ==
    \/ \E ch \in Channels : connect_first(ch)
    \/ disconnect_call(1)
    \/ ConnNext(1)
    \/ \E b \in BackendIds : CaptureNext(b)
    \/ \E b \in BackendIds : recv_echo(b)
    \/ SelftestNext

SpecTest == InitAttrs /\ [][TestNext]_vars

\* ------------------------------------------------------- app.get_bus
\* A get_bus without _bus_init_lock: a call that finds _bus None goes on to
\* construct.
get_bus_call_unlocked(i) ==
    /\ gb.pc[i] = "idle"
    /\ loop = "free"
    /\ gb' = IF gb.bus # 0
             THEN [gb EXCEPT !.ret[i] = "returned", !.got[i] = gb.bus]
             ELSE [gb EXCEPT !.pc[i] = "thread", !.ret[i] = "none", !.got[i] = 0]
    /\ UNCHANGED <<envVars, bu, failed, partial, obsVars, mgrVars, backends, calls, loop,
                   tx, rx, histVars>>

\* get_bus is called by request i: `if _bus is not None: return _bus`; else
\* `async with _bus_init_lock:`.  acquire() takes a lock that is free and
\* has no waiter without suspending, and then `if _bus is None` still
\* holds and asyncio.to_thread(BusManager) is awaited; otherwise the call
\* is suspended behind the waiters.
get_bus_call(i) ==
    /\ gb.pc[i] = "idle"
    /\ loop = "free"
    /\ gb' = IF gb.bus # 0
             THEN [gb EXCEPT !.ret[i] = "returned", !.got[i] = gb.bus]
             ELSE IF gb.holder = 0 /\ gb.waiters = <<>>
             THEN [gb EXCEPT !.holder = i, !.pc[i] = "thread",
                             !.ret[i] = "none", !.got[i] = 0]
             ELSE [gb EXCEPT !.waiters = Append(@, i), !.pc[i] = "wait",
                             !.ret[i] = "none", !.got[i] = 0]
    /\ UNCHANGED <<envVars, bu, failed, partial, obsVars, mgrVars, backends, calls, loop,
                   tx, rx, histVars>>

\* The worker thread of asyncio.to_thread runs BusManager(); the
\* constructor catches what its probes raise and always returns.
BusManager_new(i) ==
    /\ gb.pc[i] = "thread"
    /\ gb' = [gb EXCEPT !.pc[i] = "built", !.built = @ + 1, !.obj[i] = gb.built + 1]
    /\ UNCHANGED <<envVars, bu, failed, partial, obsVars, mgrVars, backends, calls, loop,
                   tx, rx, histVars>>

\* The await of to_thread ends: `_bus = ...`, the `async with` block is
\* left (the lock is released) and `return _bus`.
get_bus_built(i) ==
    /\ gb.pc[i] = "built"
    /\ loop = "free"
    /\ gb' = [gb EXCEPT !.bus = gb.obj[i],
                        !.holder = IF @ = i THEN 0 ELSE @,
                        !.pc[i] = "idle", !.obj[i] = 0,
                        !.ret[i] = "returned", !.got[i] = gb.obj[i]]
    /\ UNCHANGED <<envVars, bu, failed, partial, obsVars, mgrVars, backends, calls, loop,
                   tx, rx, histVars>>

\* The lock was released and request i is its oldest waiter: acquire()
\* returns, `if _bus is None` is tested again; with _bus set the block is
\* left at once and `return _bus`.
get_bus_locked(i) ==
    /\ gb.pc[i] = "wait"
    /\ loop = "free"
    /\ gb.holder = 0
    /\ gb.waiters # <<>> /\ Head(gb.waiters) = i
    /\ gb' = IF gb.bus = 0
             THEN [gb EXCEPT !.waiters = Tail(@), !.holder = i, !.pc[i] = "thread"]
             ELSE [gb EXCEPT !.waiters = Tail(@), !.pc[i] = "idle",
                             !.ret[i] = "returned", !.got[i] = gb.bus]
    /\ UNCHANGED <<envVars, bu, failed, partial, obsVars, mgrVars, backends, calls, loop,
                   tx, rx, histVars>>

\* Requests arriving at any time, each calling get_bus at its start, again
\* and again.
GetBusNext ==
    \/ \E i \in RequestIds : get_bus_call(i)
    \/ \E i \in RequestIds : BusManager_new(i)
    \/ \E i \in RequestIds : get_bus_built(i)
    \/ \E i \in RequestIds : get_bus_locked(i)

SpecGetBus == Init /\ [][GetBusNext]_vars

\* A socketcan connection and the socketcan connection that replaces it:
\* one caller connects twice, both capture loops run, and the frames are
\* consumed by get_rx_batch calls or by selftest calls.
ReplaceNext ==
    \/ connect_call(1, "can0")
    \/ lock_acquire(1)
    \/ _disconnect_no_lock(1)
    \/ close_stop(1)
    \/ close_join(1)
    \/ close_shutdown(1)
    \/ _disconnect_resume(1)
    \/ connect_try(1)
    \/ open_run(1)
    \/ connect_opened(1)
    \/ connect_failed(1)
    \/ \E b \in BackendIds : loop_top(b)
    \/ \E b \in BackendIds : recv_frames(b)
    \/ \E b \in BackendIds : recv_nothing(b)
    \/ \E b \in BackendIds : socketcan_put(b)
    \/ \E b \in BackendIds : socketcan_evict(b)
    \/ \E b \in BackendIds : socketcan_put2(b)
    \/ rx = IdleRx /\ selftest_call
    \/ selftest_send
    \/ selftest_poll
    \/ selftest_wake
    \/ st = IdleSt /\ get_rx_batch_call(MaxTimeout, MaxItems)
    \/ get_rx_batch_poll
    \/ read_batch_get
    \/ read_batch_return
    \/ get_rx_batch_wake

SpecReplace == InitAttrs /\ [][ReplaceNext]_vars

\* selftest on a connection that stays, with frames of other nodes that
\* match the sentinel in part among the traffic.
MatchNext ==
    \/ \E ch \in Channels : connect_first(ch)
    \/ lock_acquire(1)
    \/ _disconnect_no_lock(1)
    \/ connect_try(1)
    \/ open_run(1)
    \/ connect_opened(1)
    \/ connect_failed(1)
    \/ \E b \in BackendIds : CaptureNext(b)
    \/ \E b \in BackendIds : recv_echo(b)
    \/ \E b \in BackendIds, cls \in {"id_only", "data_only"} : recv_partial(b, cls)
    \/ SelftestNext

SpecMatch == InitAttrs /\ [][MatchNext]_vars

\* The event loop runs a coroutine that is ready and the worker threads
\* run: a connect or disconnect under way goes on, a selftest at a poll goes
\* on (nothing else runs in its synchronous stretch), and one whose sleep
\* is over is resumed although other coroutines take the loop again and
\* again.
SpecTestFair ==
    /\ SpecTest
    /\ WF_vars(ConnNext(1))
    /\ WF_vars(selftest_send)
    /\ WF_vars(selftest_poll)
    /\ SF_vars(selftest_wake)

\* selftest on a connection that stays, with the /api/stream socket's
\* get_rx_batch(timeout=0.02, max_items=200) reading the same queue: two
\* poll intervals, and more items than the queue holds.
EchoNext ==
    \/ \E ch \in Channels : connect_first(ch)
    \/ lock_acquire(1)
    \/ _disconnect_no_lock(1)
    \/ connect_try(1)
    \/ open_run(1)
    \/ connect_opened(1)
    \/ connect_failed(1)
    \/ \E b \in BackendIds : CaptureNext(b)
    \/ \E b \in BackendIds : recv_echo(b)
    \/ get_rx_batch_call(MaxTimeout, MaxItems)
    \/ get_rx_batch_poll
    \/ read_batch_get
    \/ read_batch_return
    \/ get_rx_batch_wake
    \/ SelftestNext

SpecEcho == InitAttrs /\ [][EchoNext]_vars

\* ------------------------------------------------ the connection lifecycle
\* The steps of a connect or disconnect that run on a worker thread while
\* the coroutine is suspended at `await asyncio.to_thread(...)`.
Suspended == {"close_stop", "close_join", "close_shutdown", "close_done",
              "open_run", "open_ok", "open_fail"}
Opening == {"open_run", "open_ok", "open_fail"}

\* Backend b's open() has succeeded at some time.
Opened(b) == backends[b].hw # "never"
\* Backend b's close() has run to its end: stop flag set, bus shut down,
\* handle cleared.
Closed(b) == backends[b].stop /\ ~backends[b].handle /\ backends[b].hw = "closed"
\* Backend b's capture thread has been started and has not ended.
Alive(b) == backends[b].th \notin {"none", "exited"}

C5_NotConnected ==
    [][(tx.pc = "run" /\ tx'.out # tx.out /\ _bus.st # "ref") =>
          /\ tx'.out[Len(tx'.out)].error = "RuntimeError: Not connected"
          /\ handed' = handed]_vars

\* C6: a send request of N frames ends with N results, one per frame in
\* request order, whatever the frames are.
C6_OneResultPerFrame ==
    (tx.pc = "idle" /\ tx.ret # "none") =>
        /\ tx.ret = "returned"
        /\ Len(tx.out) = Len(tx.req)

C11_BoundedOrEmpty ==
    /\ [](rx.pc = "read" => rx.elapsed < rx.timeout)
    /\ [][(rx.pc # "idle" /\ rx'.pc = "idle") =>
              /\ rx'.ret = "returned"
              /\ Len(rx'.items) <= rx.max_items
              /\ (_bus.st # "ref" =>
                      rx'.items = <<>> /\ backends' = backends)]_vars

\* ------------------------------------------------------------- health
\* C12: health_snapshot returns a dict and never raises, in every reachable
\* state, the one right after construction included; with no backend open
\* the dict is the disconnected status object.
C12_SnapshotNeverRaises ==
    [][snap' # snap =>
           /\ snap'.inner = "returned"
           /\ (_bus.st # "ref" =>
                   snap'.body = Snapshot("disconnected", FALSE, FALSE))]_vars

SentinelQueued(b) ==
    /\ backends[b].kind = "socketcan"
    /\ \E f \in marks[b] :
         /\ f > st.seq0
         /\ f <= backends[b].seq
         /\ \A i \in 1..Len(backends[b].pend) : backends[b].pend[i] # f

C16_NeverRaises ==
    [][(st' # st /\ st'.pc = "idle") =>
           /\ st'.ret = "returned"
           /\ st'.connected \in {"True", "False"}
           /\ (st.pc = "idle" /\ _bus.st # "ref") =>
                  /\ st'.connected = "False"
                  /\ ~st'.tx_ok
                  /\ loopq' = loopq]_vars

\* ------------------------------------------------- decoder.decode_frame
\* Byte i (from 0) of a payload taken as 8 bytes, the missing ones zero.
Padded(data, i) == IF i < Len(data) THEN data[i + 1] ELSE 0

\* C17: for an identifier that parses, sa is the identifier's low byte and
\* pgn is (pf << 8) | ps when pf >= 240 and pf << 8 otherwise, pf and ps
\* being bits 16-23 and 8-15; 18FEE5FF gives pgn 65253, sa 255.
C17_PgnSa ==
    (dec.pc = "done" /\ ~HexInvalid(dec.id_hex)) =>
        LET id == HexValue(dec.id_hex)
            pf == (id \div 65536) % 256
            ps == (id \div 256) % 256 IN
        /\ dec.out.sa = Some(id % 256)
        /\ dec.out.pgn = Some(IF pf >= 240 THEN pf * 256 + ps ELSE pf * 256)
        /\ dec.id_hex = <<"1","8","F","E","E","5","F","F">> =>
               (dec.out.pgn = Some(65253) /\ dec.out.sa = Some(255))

C17_Witness ==
    /\ dec.pc = "done"
    /\ dec.id_hex = <<"1","8","F","E","E","5","F","F">>
    /\ dec.out.pgn = Some(65253)
    /\ dec.out.sa = Some(255)

\* C18: every field decoded is 'N/A' exactly when a byte of its byte range
\* (in the payload padded to 8 bytes) is 0xFF, and a number otherwise,
\* whatever the bytes outside its range are.
C18_Sentinel ==
    dec.pc = "done" =>
        \A k \in DOMAIN dec.out.decoded :
            LET range ==
                  CASE k = "Engine Hours (h)" -> 0..3
                    [] k = "Coolant Temp (degC)" -> {0}
                    [] k = "Fuel Temp (degC)" -> {1}
                    [] k = "Oil Temp (degC)" -> 2..3
                    [] k = "Fuel Delivery Pressure (kPa)" -> {0}
                    [] k = "Engine Oil Pressure (kPa)" -> {3}
                    [] k = "Coolant Pressure (kPa)" -> {6}
                    [] k = "Coolant Level (%)" -> {7}
                    [] k = "Trans Oil Pressure (kPa)" -> {3}
                    [] k = "Trans Oil Temp (degC)" -> 4..5
                    [] k = "Fuel Rate (L/h)" -> 0..1
                    [] k = "Avg Fuel Economy (km/L)" -> 4..5
                    [] k = "Fuel Level (%)" -> {1}
                    [] k = "Engine Load (%)" -> {2} IN
            dec.out.decoded[k].na <=> \E i \in range : Padded(dec.data, i) = 255

C18_Witness ==
    /\ dec.pc = "done"
    /\ dec.out.pgn = Some(65262)
    /\ dec.out.decoded["Coolant Temp (degC)"] = NA
    /\ dec.out.decoded["Fuel Temp (degC)"] = Num(34 - 40, 1)
    /\ dec.out.decoded["Oil Temp (degC)"] = NA

\* C19: decode_frame returns for every identifier and every payload of 0 to
\* 8 bytes; an identifier that does not parse gives pgn null, sa null and no
\* signals; a short payload is decoded as the payload with zero bytes added
\* on its right.
C19_Total ==
    dec.pc = "done" =>
        /\ dec.out.ret = "returned"
        /\ HexInvalid(dec.id_hex) =>
               (dec.out.pgn = Null /\ dec.out.sa = Null /\ dec.out.decoded = <<>>)
        /\ dec.out = decode_frame(dec.id_hex,
                                  [i \in 1..PayloadLen |-> Padded(dec.data, i - 1)])

C19_Witness ==
    /\ dec.pc = "done"
    /\ dec.data = <<34>>
    /\ dec.out.ret = "returned"
    /\ dec.out.pgn = Some(65263)
    /\ dec.out.decoded["Fuel Delivery Pressure (kPa)"] = Num(136, 1)
    /\ dec.out.decoded["Coolant Level (%)"] = Num(0, 1000)

\* C20: for an identifier that parses, pgn and sa are reported; a PGN the
\* table does not list has no signals, and a listed one has exactly the
\* table's fields.
C20_TableFields ==
    (dec.pc = "done" /\ ~HexInvalid(dec.id_hex)) =>
        /\ ~dec.out.pgn.null
        /\ ~dec.out.sa.null
        /\ DOMAIN dec.out.decoded =
             LET pgn == dec.out.pgn.v IN
             CASE pgn = 65253 -> {"Engine Hours (h)"}
               [] pgn = 65262 -> {"Coolant Temp (degC)", "Fuel Temp (degC)",
                                  "Oil Temp (degC)"}
               [] pgn = 65263 -> {"Fuel Delivery Pressure (kPa)",
                                  "Engine Oil Pressure (kPa)",
                                  "Coolant Pressure (kPa)", "Coolant Level (%)"}
               [] pgn = 65272 -> {"Trans Oil Pressure (kPa)", "Trans Oil Temp (degC)"}
               [] pgn = 65266 -> {"Fuel Rate (L/h)", "Avg Fuel Economy (km/L)"}
               [] pgn = 65276 -> {"Fuel Level (%)"}
               [] pgn = 61443 -> {"Engine Load (%)"}
               [] OTHER -> {}

C20_Witness ==
    /\ dec.pc = "done"
    /\ dec.out.pgn = Some(65263)
    /\ Cardinality(DOMAIN dec.out.decoded) = 4

\* The little-endian number in bytes lo..hi of the payload taken as 8 bytes.
RECURSIVE RawLE(_, _, _)
RawLE(data, lo, hi) ==
    IF lo > hi THEN 0
    ELSE Padded(data, lo) + 256 * RawLE(data, lo + 1, hi)

\* The signal value v is the number p / q.
Exactly(v, p, q) == ~v.na /\ v.num * q = p * v.den
\* The signal value v is p / q rounded to a whole number of thousandths.
Rounded(v, p, q) ==
    LET diff == v.num * q - 1000 * p IN
    /\ ~v.na
    /\ v.den = 1000
    /\ 2 * diff <= q
    /\ 2 * diff >= 0 - q

ShutdownStep(c) ==
    /\ calls[c].pc = "close_shutdown"
    /\ calls'[c].pc = "close_done"
    /\ backends[calls[c].prior].handle

\* C22 as stated: close() never raises, and each shutdown of the underlying
\* bus or device follows a successful open() of it that no shutdown has
\* followed yet.
C22_Original ==
    /\ [](\A c \in CallIds :
            (calls[c].op = "close" /\ calls[c].pc = "idle") => calls[c].res = "done")
    /\ [][\A c \in CallIds : ShutdownStep(c) =>
              /\ backends[calls[c].prior].hw = "open"
              /\ ~backends'[calls[c].prior].handle]_vars

\* C22: close() never raises; a close() that finds no handle bound changes
\* nothing but the stop flag; one that finds the handle shuts the bus or
\* device down and unbinds it, and the bus or device was not shut down
\* before (it is open, or it is an Intrepid device that open() bound and
\* then failed to open).
C22_ShutdownOnce ==
    /\ [](\A c \in CallIds :
            (calls[c].op = "close" /\ calls[c].pc = "idle") => calls[c].res = "done")
    /\ [][\A c \in CallIds :
            LET b == calls[c].prior IN
            (calls[c].pc = "close_shutdown" /\ calls'[c].pc = "close_done") =>
                IF backends[b].handle
                THEN /\ backends[b].hw # "closed"
                     /\ backends[b].hw = "never" => backends[b].kind = "intrepid"
                     /\ ~backends'[b].handle
                     /\ backends'[b].hw = "closed"
                ELSE backends'[b] = backends[b]]_vars

\* A second close() reaches its shutdown test on a backend that an earlier
\* close() has shut down.
C22_Witness ==
    /\ calls[1].op = "close"
    /\ calls[1].pc = "close_shutdown"
    /\ backends[calls[1].prior].hw = "closed"
    /\ ~backends[calls[1].prior].handle

\* ------------------------------------------------------ variant routing
\* The variant a channel name is tagged for: "intrepid<N>" names an Intrepid
\* device, "kvaser<N>" a Kvaser channel, any other name a SocketCAN interface.
TagOf(ch) ==
    CASE ch = "intrepid0" -> "intrepid"
      [] ch = "kvaser0" -> "kvaser"
      [] OTHER -> "socketcan"

Final(r) == IF r.h = "none" THEN r.d ELSE r.h
\* The link commands of the request so far, in the order they were run.
IsLink(e) == e.cmd \in {"down", "type", "up"}
LinkLog == SelectSeq(bu.log, IsLink)
Rank(cmd) == CASE cmd = "down" -> 1 [] cmd = "type" -> 2 [] cmd = "up" -> 3 [] OTHER -> 0
Cmds(log) == {log[i].cmd : i \in DOMAIN log}

C25_AllowedBitrate ==
    /\ \A i \in DOMAIN bu.log : bu.log[i].cmd = "type" => bu.log[i].bitrate \in allowed
    /\ (~bu.vcan /\ bu.pc # "idle" /\ bu.req \notin allowed \cup {0}) =>
          /\ LinkLog = <<>>
          /\ bu.pc = "done" => bu.res = "400"

\* C26: a privileged command is run directly first; it is run once more,
\* through the helper, exactly when the direct run ended in a permission
\* problem (exit status 1, 126 or 127, or a permission-denied message or
\* error) and the helper is available; a call made with check=True that is
\* not retried and did not succeed raises.
C26_RetryOnce ==
    /\ \A i \in DOMAIN bu.log : bu.log[i].via = "helper" =>
          /\ i > 1
          /\ bu.log[i - 1].via = "direct"
          /\ bu.log[i - 1].cmd = bu.log[i].cmd
    /\ bu.last.cmd # "none" =>
          /\ bu.last.h # "none" <=>
                (bu.helper /\ bu.last.d \in {"rc1", "rc126", "rc127", "eperm", "eacces"})
          /\ (bu.last.check /\ bu.last.h = "none" /\ bu.last.d # "ok") => bu.last.exc # "none"

Last(q) == q[Len(q)]
Elems(q) == {q[i] : i \in DOMAIN q}

Taken ==
    LET q == backends[st.b].rxq
        r == backends'[st.b].rxq IN
    IF st.b \in BackendIds /\ _bus = Ref(st.b) /\ Len(r) < Len(q)
    THEN {q[i] : i \in 1..(Len(q) - Len(r))}
    ELSE {}

C36_ConstructedOnce ==
    /\ [](gb.built <= 1)
    /\ [](\A i \in RequestIds :
            gb.ret[i] = "returned" =>
                /\ gb.built = 1
                /\ gb.got[i] # 0
                /\ gb.got[i] = gb.bus)
    /\ [][gb.bus # 0 => gb'.built = gb.built]_vars

\* Two requests have their instance while a third, which called while
\* _bus was still None, is still suspended on the lock.
C36_Witness ==
    /\ gb.bus = 1
    /\ gb.ret[1] = "returned" /\ gb.got[1] = 1
    /\ gb.ret[2] = "returned" /\ gb.got[2] = 1
    /\ gb.pc[3] = "wait"

====
